---- MODULE Spec2Model ----
(***************************************************************************)
(* A model of nzb-tools' "get" command (getCmd), of the NNTP client it     *)
(* drives (DialNNTP, Auth, Request, Body, Quit) and of the yEnc line       *)
(* decoder (decodeYEncLine).                                               *)
(*                                                                         *)
(* Lines (status lines, payload lines) are sequences of byte values, so    *)
(* that prefix tests, status parsing and decoding are computed as the code *)
(* computes them.                                                          *)
(***************************************************************************)
EXTENDS Integers, Sequences, FiniteSets, TLC

----------------------------------------------------------------------------
(* Bounds of the model. *)

\* the most segments a file of the manifest has
MaxSegs == 3
\* the largest declared size (bytes attribute) of a segment
MaxSegBytes == 2
\* the largest size a file's subject announces
MaxSubjSize == 3
\* the most commands a caller of the client has written on one session
MaxSent == 3
\* the most lines of an article given to Post
MaxPostLines == 2
\* the longest byte sequence given to the line codecs
MaxRawLen == 2
\* the longest transported line given to the decoder
MaxLineLen == 3

----------------------------------------------------------------------------
(* Bytes and lines. *)

Dot == 46
Equals == 61
Space == 32

\* NNTPReadTimeout, in seconds
NNTPReadTimeout == 10

\* strings.HasPrefix
HasPrefix(line, prefix) ==
    /\ Len(line) >= Len(prefix)
    /\ SubSeq(line, 1, Len(prefix)) = prefix

RECURSIVE Sum(_)
Sum(s) == IF s = <<>> THEN 0 ELSE Head(s) + Sum(Tail(s))

RECURSIVE Flatten(_)
Flatten(ss) == IF ss = <<>> THEN <<>> ELSE Head(ss) \o Flatten(Tail(ss))

\* all sequences over S of length lo..hi
SeqsOf(S, lo, hi) == UNION { [1..n -> S] : n \in lo..hi }

----------------------------------------------------------------------------
(* Status lines: what Request and Auth read of them. *)

\* a status line "d1d2d3 x"
StatusLine(d1, d2, d3) == <<48 + d1, 48 + d2, 48 + d3, Space, 120>>

L200 == StatusLine(2, 0, 0)
L201 == StatusLine(2, 0, 1)
L222 == StatusLine(2, 2, 2)
L281 == StatusLine(2, 8, 1)
L381 == StatusLine(3, 8, 1)
L430 == StatusLine(4, 3, 0)
L481 == StatusLine(4, 8, 1)
L502 == StatusLine(5, 0, 2)

IsSpace(b) == b \in {9, 10, 11, 12, 13, Space}

RECURSIVE TrimLeft(_)
TrimLeft(s) == IF s # <<>> /\ IsSpace(Head(s)) THEN TrimLeft(Tail(s)) ELSE s

RECURSIVE TrimRight(_)
TrimRight(s) ==
    IF s # <<>> /\ IsSpace(s[Len(s)]) THEN TrimRight(SubSeq(s, 1, Len(s) - 1)) ELSE s

\* strings.TrimSpace
TrimSpace(s) == TrimRight(TrimLeft(s))

\* strings.SplitN(line, " ", 2)[0]
RECURSIVE FirstField(_)
FirstField(line) ==
    IF line = <<>> \/ Head(line) = Space THEN <<>>
    ELSE <<Head(line)>> \o FirstField(Tail(line))

RECURSIVE DigitsValue(_)
DigitsValue(s) ==
    IF s = <<>> THEN 0
    ELSE 10 * DigitsValue(SubSeq(s, 1, Len(s) - 1)) + (s[Len(s)] - 48)

\* strconv.Atoi: an optional sign, then one digit or more
AtoiDigits(s) == IF s # <<>> /\ Head(s) \in {43, 45} THEN Tail(s) ELSE s

AtoiOK(s) ==
    /\ AtoiDigits(s) # <<>>
    /\ \A i \in 1..Len(AtoiDigits(s)) : AtoiDigits(s)[i] \in 48..57

Atoi(s) ==
    IF s # <<>> /\ Head(s) = 45 THEN 0 - DigitsValue(AtoiDigits(s))
    ELSE DigitsValue(AtoiDigits(s))

\* Request: the status code of a status line, 0 when it has none
StatusCode(line) ==
    LET f == TrimSpace(FirstField(line))
    IN IF AtoiOK(f) THEN Atoi(f) ELSE 0

----------------------------------------------------------------------------
(* yEnc lines. *)

\* a loop that takes an escape marker at the end of the line for a data byte
RECURSIVE DecodeFromLenient(_, _, _)
DecodeFromLenient(line, i, out) ==
    IF i > Len(line) THEN [ok |-> TRUE, bytes |-> out]
    ELSE IF line[i] = Equals /\ i + 1 <= Len(line)
         THEN DecodeFromLenient(line, i + 2, Append(out, (line[i + 1] - 64 - 42) % 256))
         ELSE DecodeFromLenient(line, i + 1, Append(out, (line[i] - 42) % 256))

\* decodeYEncLine's loop from index i on
RECURSIVE DecodeFrom(_, _, _)
DecodeFrom(line, i, out) ==
    IF i > Len(line) THEN [ok |-> TRUE, bytes |-> out]
    ELSE IF line[i] = Equals
         THEN IF i + 1 > Len(line)
              THEN [ok |-> FALSE, bytes |-> <<>>]
              ELSE DecodeFrom(line, i + 2, Append(out, (line[i + 1] - 64 - 42) % 256))
         ELSE DecodeFrom(line, i + 1, Append(out, (line[i] - 42) % 256))

\* a decoder that takes the escape marker for a data byte
decodeNoEscape(line) ==
    [ok |-> TRUE, bytes |-> [i \in 1..Len(line) |-> (line[i] - 42) % 256]]

decodeYEncLine(line) ==
    IF Len(line) = 0 THEN [ok |-> TRUE, bytes |-> <<>>]
    ELSE DecodeFrom(line, 1, <<>>)

\* The encoder's critical values: NUL, LF, CR and the escape marker.
Critical == {0, 10, 13, Equals}

\* The mirror transform of decodeYEncLine, as the tests build their vectors.
RECURSIVE encodeYEncLine(_)
encodeYEncLine(raw) ==
    IF raw = <<>> THEN <<>>
    ELSE LET e == (Head(raw) + 42) % 256
         IN (IF e \in Critical THEN <<Equals, (e + 64) % 256>> ELSE <<e>>)
            \o encodeYEncLine(Tail(raw))

\* "=ybegin", "=ypart", "=yend"
YBegin == <<61, 121, 98, 101, 103, 105, 110>>
YPart == <<61, 121, 112, 97, 114, 116>>
YEnd == <<61, 121, 101, 110, 100>>

----------------------------------------------------------------------------
(* Dot-terminated payloads on the wire. *)

\* One payload line as it is transmitted: a line that begins with the
\* end-marker carries one more (Post does the same to the lines it sends).
DotStuff(l) == IF HasPrefix(l, <<Dot>>) THEN <<Dot>> \o l ELSE l

\* The peer's multi-line response: the stuffed lines, then a lone end-marker.
WireOf(lines) == [i \in 1..Len(lines) |-> DotStuff(lines[i])] \o << <<Dot>> >>

\* textproto.Reader.ReadDotLines: the lines up to the lone end-marker, each
\* without one leading end-marker.
RECURSIVE ReadDotLines(_)
ReadDotLines(wire) ==
    IF wire = <<>> \/ Head(wire) = <<Dot>> THEN <<>>
    ELSE << IF HasPrefix(Head(wire), <<Dot>>) THEN Tail(Head(wire)) ELSE Head(wire) >>
         \o ReadDotLines(Tail(wire))

----------------------------------------------------------------------------
(* The articles the peer holds. *)

\* the decoded bytes articles are made of; 4 is sent as the end-marker
RawBytes == {4, 5}

\* content c cut into chunks after each position of cuts
RECURSIVE SplitAt(_, _, _, _)
SplitAt(c, cuts, i, cur) ==
    IF i > Len(c) THEN (IF cur = <<>> THEN <<>> ELSE <<cur>>)
    ELSE IF i \in cuts
         THEN <<Append(cur, c[i])>> \o SplitAt(c, cuts, i + 1, <<>>)
         ELSE SplitAt(c, cuts, i + 1, Append(cur, c[i]))

\* the lines of an article that holds content c, one line per chunk,
\* between its yEnc header and trailer when framed
ArticleLines(c, cuts, framed) ==
    LET chunks == SplitAt(c, cuts, 1, <<>>)
        body == [k \in 1..Len(chunks) |-> encodeYEncLine(chunks[k])]
    IN IF framed THEN <<YBegin, YPart>> \o body \o <<YEnd>> ELSE body

\* every article of decoded size n: its content and its lines
ArticlesOfSize(n) ==
    { [ok |-> TRUE, data |-> c, lines |-> ArticleLines(c, cuts, framed)] :
        c \in [1..n -> RawBytes], cuts \in SUBSET (1..(n - 1)), framed \in BOOLEAN }

\* an article with a line that ends in the escape marker
BrokenArticle == [ok |-> FALSE, data |-> <<>>, lines |-> << <<47>>, <<Equals>> >>]

Articles == UNION { ArticlesOfSize(n) : n \in 0..MaxSegBytes } \cup {BrokenArticle}

----------------------------------------------------------------------------
(* The manifest: parseNZB. *)

\* File.SizeNum as parseNZB sets it: the size the subject announces when it
\* announces a positive one, the sum of the segments' bytes otherwise.
FileSizeNum(subj, segs) == IF subj > 0 THEN subj ELSE Sum(segs)

----------------------------------------------------------------------------
(* getCmd: the planning loop. *)

\* The loop over file.Segments that builds pieces; i is the index of the
\* segment the iteration looks at, offset the bytes of the segments before it.
\* A piece's id is the index of its segment.
RECURSIVE PlanLoop(_, _, _, _, _, _)
PlanLoop(segs, i, offset, pieces, s, e) ==
    IF i > Len(segs) THEN pieces
    ELSE LET segSize == segs[i] IN
         IF offset + segSize - 1 < s
         THEN PlanLoop(segs, i + 1, offset + segSize, pieces, s, e)
         ELSE LET p == [id |-> i,
                        start |-> IF Len(pieces) = 0 THEN s - offset ELSE 0,
                        end |-> segSize - 1]
              IN IF offset + segSize - 1 >= e
                 THEN Append(pieces,
                             [p EXCEPT !.end = segSize - (offset + segSize - 1 - e) - 1])
                 ELSE PlanLoop(segs, i + 1, offset + segSize, Append(pieces, p), s, e)

\* the planning loop with the first piece's start left absolute
PlanPiecesAbsoluteStart(segs, s, e) ==
    LET ps == PlanLoop(segs, 1, 0, <<>>, s, e)
    IN [k \in 1..Len(ps) |-> IF k = 1 THEN [ps[k] EXCEPT !.start = s] ELSE ps[k]]

PlanPieces(segs, s, e) == PlanLoop(segs, 1, 0, <<>>, s, e)

----------------------------------------------------------------------------
VARIABLES
    \* the manifest and the command line
    segBytes,   \* file.Segments[i].Bytes, in manifest order
    subjSize,   \* the size the file's subject announces (0: none)
    sizeNum,    \* file.SizeNum
    start,      \* *start
    endArg,     \* --end as given on the command line
    faithful,   \* the peer's articles have the decoded sizes the manifest declares
    \* getCmd
    end,        \* *end
    pieces,     \* the planned pieces
    pc,         \* where getCmd is ("caller": another caller drives the client)
    err,        \* what getCmd returned ("" while it runs, "nil" for no error)
    pi,         \* the index of the piece the assembly loop is at
    lines,      \* the lines of the current body not yet looked at
    segWritten, \* segWritten
    pieceWritten, \* the number of bytes written to w for the piece the loop is at
    out,        \* the bytes written to w
    \* the NNTP client
    conn,       \* the transport: "none", "open" or "closed"
    op,         \* the client function that runs: "", "Dial", "Auth", "Request"
    spc,        \* where that function is ("idle": none runs, "ret": it returned)
    opErr,      \* the error it returned ("nil" for none)
    sent,       \* the commands written to the peer, in order
    user,       \* Auth's username (*u in getCmd)
    authReplies,\* what Auth's reads returned, in order
    reqArgs,    \* Request's method and msgid
    reqCode,    \* Request's results: the status code,
    reqLine,    \*   the status line
    reqLines,   \*   and the dot-terminated lines
    \* history
    mark,       \* Len(sent) when the client function that runs was called
    payloadRead,\* whether the last response's payload was read to its end-marker
    article,    \* the article the peer sent in the last response
    want,       \* per segment served: the bytes of [start, end] its content holds
    sizesOK,    \* every segment served so far had its declared decoded size
    failed,     \* the number of BODY commands sent when a piece first failed (0: none)
    \* the transport
    deadline,   \* the read deadline armed on conn, in seconds from now (0: none)
    bwErr,      \* the buffered writer has met an error (every later write fails)
    openConns,  \* the transports opened and not yet closed
    reads,      \* the reads the client function that runs has made ("line", "dot")
    session,    \* DialNNTP has returned a client
    leftover,   \* lines of an earlier response that the peer sent and no read took
    \* Post
    postArticle,\* the article given to Post, as its lines
    posted,     \* the lines Post has written after POST, as on the wire
    postRet,    \* the message-id Post returned
    postReplies,\* what Post's reads returned, in order
    \* the line codecs applied to one input
    cpc,        \* the stage reached
    cin,        \* the input
    cval,       \* the value at this stage
    \* checkCmd and validateCmd
    checkMethod,\* check: *method
    files,      \* check: the selected files, each as its number of segments
    fi,         \* check: the file the loop is at
    si,         \* check: the segment of that file the loop is at
    servers,    \* validate: the selected servers
    check,      \* validate: *check
    vi,         \* validate: the server the loop is at
    ok,         \* validate: ok
    printed,    \* what the command has reported, in order
    \* the connection parameters of getCmd and checkCmd
    hostname,   \* --hostname as given
    port,       \* --port as given
    server,     \* --server as given
    cfg,        \* the servers of the configuration LoadConfig returns
    addr,       \* the host and port DialNNTP is called with
    env         \* the flat map configFromEnvMap is given

manifestVars == <<segBytes, subjSize, sizeNum, start, endArg, faithful>>
getVars == <<end, pieces, pc, err, pi, lines, segWritten, pieceWritten, out>>
clientVars == <<conn, op, spc, opErr, sent, user, authReplies, reqArgs, reqCode, reqLine,
                reqLines>>
historyVars == <<mark, payloadRead, article, want, sizesOK, failed>>
netVars == <<deadline, bwErr, openConns, reads, session>>
postVars == <<postArticle, posted, postRet, postReplies>>
codecVars == <<cpc, cin, cval>>
addrVars == <<hostname, port, server, cfg, addr, env>>
cmdVars == <<checkMethod, files, fi, si, servers, check, vi, ok, printed, addrVars>>
vars == <<manifestVars, getVars, clientVars, historyVars, netVars, postVars, codecVars, leftover, cmdVars>>

Manifests == SeqsOf(0..MaxSegBytes, 1, MaxSegs)

NoArticle == [ok |-> FALSE, data |-> <<>>, lines |-> <<>>]

\* a value the line codecs hand on: lines, or the decoder's bytes and error
CodecValue(good, ls) == [ok |-> good, lines |-> ls]

\* the state of checkCmd and validateCmd before their loops
CmdRest ==
    /\ fi = 1 /\ si = 1 /\ vi = 1 /\ ok = TRUE /\ printed = <<>>
    /\ hostname = "" /\ port = 0 /\ server = "" /\ cfg = <<>> /\ addr = <<>>
    /\ env = <<>>

\* neither checkCmd nor validateCmd runs
NoCmd == checkMethod = "" /\ files = <<>> /\ servers = <<>> /\ check = FALSE /\ CmdRest

\* the line codecs are not exercised
NoCodec == cpc = "none" /\ cin = <<>> /\ cval = CodecValue(TRUE, <<>>)

\* no client yet, nothing fetched yet
InitRest ==
    /\ end = endArg
    /\ pieces = <<>>
    /\ err = ""
    /\ pi = 1
    /\ lines = <<>>
    /\ segWritten = 0
    /\ pieceWritten = 0
    /\ out = <<>>
    /\ conn = "none"
    /\ op = ""
    /\ spc = "idle"
    /\ opErr = ""
    /\ sent = <<>>
    /\ authReplies = <<>>
    /\ reqArgs = <<"", 0>>
    /\ reqCode = 0
    /\ reqLine = <<>>
    /\ reqLines = <<>>
    /\ mark = 0
    /\ payloadRead = TRUE
    /\ article = NoArticle
    /\ want = [i \in 1..Len(segBytes) |-> <<>>]
    /\ sizesOK = TRUE
    /\ failed = 0
    /\ deadline = 0
    /\ bwErr = FALSE
    /\ openConns = 0
    /\ reads = <<>>
    /\ session = FALSE
    /\ leftover = <<>>
    /\ postArticle = <<>>
    /\ posted = <<>>
    /\ postRet = <<>>
    /\ postReplies = <<>>

\* getCmd is entered with a parsed manifest and parsed flags
Init ==
    /\ segBytes \in Manifests
    /\ subjSize \in 0..MaxSubjSize
    /\ sizeNum = FileSizeNum(subjSize, segBytes)
    /\ start \in -1..(MaxSegs * MaxSegBytes)
    /\ endArg \in -1..(MaxSegs * MaxSegBytes)
    /\ user \in {"", "u"}
    /\ faithful = TRUE
    /\ pc = "validate"
    /\ InitRest
    /\ NoCodec
    /\ NoCmd

----------------------------------------------------------------------------
(* The NNTP client. *)

\* the BODY commands of a log, as the msgids they name
RECURSIVE BodiesOf(_)
BodiesOf(log) ==
    IF log = <<>> THEN <<>>
    ELSE (IF Head(log)[1] = "BODY" THEN <<Head(log)[2]>> ELSE <<>>) \o BodiesOf(Tail(log))

\* a piece's fetch fails now, if none has before
NoteFailure(log) == failed' = IF failed = 0 /\ pc = "body" THEN Len(BodiesOf(log)) ELSE failed

\* Quit: QUIT is handed to the writer
QuitSent(log) == Append(log, <<"QUIT", 0>>)

\* a client function returns e
OpReturn(e) == spc' = "ret" /\ opErr' = e

\* what a read returned: a line, or an error
ReadLineOK(line) == [ok |-> TRUE, line |-> line]
ReadLineErr == [ok |-> FALSE, line |-> <<>>]

\* a read deadline that is never armed
DeadlineNever(timeout) == 0

\* conn.SetReadDeadline(time.Now().Add(timeout)): the deadline armed, 0 for none
DeadlineAfter(timeout) == timeout

\* a write that is taken to reach the peer whatever the transport's state
CanWriteThoughClosed == ~bwErr

\* a write reaches the peer only on an open transport whose buffered writer
\* has met no error yet
CanWrite == conn = "open" /\ ~bwErr

\* PrintfLine and flush went through; the deadline of the read that follows
\* is armed
WriteOK(next) ==
    /\ CanWrite
    /\ spc' = next /\ opErr' = opErr
    /\ bwErr' = bwErr
    /\ deadline' = DeadlineAfter(NNTPReadTimeout)

\* PrintfLine or flush returned an error, which the function returns
WriteFails ==
    /\ OpReturn("write")
    /\ bwErr' = TRUE
    /\ deadline' = deadline

\* How a read that gets no line ends: the transport fails, or the peer says
\* nothing and the armed deadline passes.
ReadFailures == IF deadline > 0 THEN {"read", "timeout"} ELSE {"read"}

\* a read the client function has made: of one line or of dot-terminated
\* lines, how it ended ("ok", "read", "timeout", "never") and the line read
ReadOf(kind, how, line) == [kind |-> kind, how |-> how, line |-> line]

\* the read that is made now ends with error e
ReadFails(kind, e) == OpReturn(e) /\ reads' = Append(reads, ReadOf(kind, e, <<>>))

\* the peer says nothing and no deadline is armed: the read never returns
Hangs(kind) ==
    /\ deadline = 0
    /\ spc' = "hung" /\ opErr' = opErr
    /\ reads' = Append(reads, ReadOf(kind, "never", <<>>))

\* the lines the next ReadLine can return: the peer's answer to the command
\* just written, one of S, unless a line of an earlier response is still to
\* be read
PeerLines(S) == IF leftover = <<>> THEN S ELSE {Head(leftover)}

\* a ReadLine that returned a line has taken it from the stream
StreamAfterRead ==
    leftover' = IF reads'[Len(reads')].how = "ok" /\ leftover # <<>>
                THEN Tail(leftover) ELSE leftover

\* what is left of a multi-line response when ReadDotLines gave up at the
\* deadline: nothing if the peer sends no more, or the end of the response
\* it sends later: the terminator, or the last line and the terminator (to
\* getCmd and checkCmd: the terminator)
LeftOf(wire) ==
    {<<>>} \cup { SubSeq(wire, k, Len(wire)) :
                    k \in (IF pc = "caller" /\ Len(wire) > 1
                           THEN Len(wire) - 1 ELSE Len(wire))..Len(wire) }

\* c.conn.Close() on a transport in state c: what it returns
CloseResult(c) == IF c = "open" THEN "nil" ELSE "use of closed network connection"

\* the transports open after c.conn.Close() on one in state c, n open before
OpenAfterClose(c, n) == IF c = "open" THEN n - 1 ELSE n

\* DialNNTP: the transport is opened
DialConnect ==
    /\ op = "Dial" /\ spc = "connect"
    /\ \/ conn' = "open" /\ openConns' = openConns + 1 /\ spc' = "greeting" /\ opErr' = opErr
       \/ conn' = "none" /\ openConns' = openConns /\ OpReturn("connect")
    /\ session' = FALSE
    /\ bwErr' = FALSE
    /\ reads' = <<>>
    /\ leftover' = <<>>
    /\ UNCHANGED <<manifestVars, getVars, historyVars, postVars, codecVars, cmdVars, op, sent, user,
                   authReplies, reqArgs, reqCode, reqLine, reqLines, deadline>>

GreetingLines == {L200, L201, L502, <<50, 48>>}

\* a greeting test that looks at the first digit only
GreetingAcceptedAny2xx(line) == HasPrefix(line, <<50>>)

\* DialNNTP: whether the greeting is one of the accepted ones
GreetingAccepted(line) == HasPrefix(line, <<50, 48, 48>>) \/ HasPrefix(line, <<50, 48, 49>>)

\* DialNNTP: the greeting is read; the transport is closed when no session
\* comes of it
DialGreeting ==
    /\ op = "Dial" /\ spc = "greeting"
    /\ \/ /\ \E e \in ReadFailures : ReadFails("line", e)
          /\ conn' = "closed" /\ openConns' = OpenAfterClose(conn, openConns)
          /\ session' = FALSE
       \/ Hangs("line") /\ UNCHANGED <<conn, openConns, session>>
       \/ \E line \in GreetingLines :
            /\ reads' = Append(reads, ReadOf("line", "ok", line))
            /\ IF ~GreetingAccepted(line)
               THEN /\ OpReturn("unexpected greeting")
                    /\ conn' = "closed" /\ openConns' = OpenAfterClose(conn, openConns)
                    /\ session' = FALSE
               ELSE /\ OpReturn("nil")
                    /\ session' = TRUE
                    /\ UNCHANGED <<conn, openConns>>
    /\ UNCHANGED <<manifestVars, getVars, historyVars, postVars, codecVars, leftover, cmdVars, op, sent, user,
                   authReplies, reqArgs, reqCode, reqLine, reqLines, deadline, bwErr>>

\* Auth: up to the flush of AUTHINFO USER
AuthSendUser ==
    /\ op = "Auth" /\ spc = "start"
    /\ reads' = <<>>
    /\ IF user = ""
       THEN OpReturn("nil") /\ UNCHANGED <<sent, bwErr, deadline>>
       ELSE /\ sent' = Append(sent, <<"AUTHINFO USER", 0>>)
            /\ WriteOK("userReply") \/ WriteFails
    /\ UNCHANGED <<manifestVars, getVars, historyVars, postVars, codecVars, leftover, cmdVars, conn, op, user,
                   authReplies, reqArgs, reqCode, reqLine, reqLines, openConns, session>>

AuthLines == {L281, L381, L481, L502, L200}

\* Auth on the reply to AUTHINFO USER, with the two tests in the other order
\* and the second one kept as a fall-through
AfterUserReplyFallThrough(line) ==
    IF HasPrefix(line, <<50, 56, 49>>) \/ HasPrefix(line, <<51, 56, 49>>)
    THEN "pass"
    ELSE "auth unexpected response"

\* Auth on the reply to AUTHINFO USER: "pass" when the password is to be
\* sent, else what Auth returns
AfterUserReply(line) ==
    IF HasPrefix(line, <<51, 56, 49>>) THEN "pass"
    ELSE IF HasPrefix(line, <<50, 56, 49>>) THEN "nil"
    ELSE "auth unexpected response"

\* Auth on the reply to AUTHINFO PASS, taking any 2xx for accepted
AfterPassReplyAny2xx(line) ==
    IF ~HasPrefix(line, <<50>>) THEN "auth failed" ELSE "nil"

\* Auth on the reply to AUTHINFO PASS: what Auth returns
AfterPassReply(line) ==
    IF ~HasPrefix(line, <<50, 56, 49>>) THEN "auth failed" ELSE "nil"

\* Auth: the reply to AUTHINFO USER is read, and the deadline cleared
AuthReadUser ==
    /\ op = "Auth" /\ spc = "userReply"
    /\ \/ /\ \E e \in ReadFailures : ReadFails("line", e)
          /\ authReplies' = Append(authReplies, ReadLineErr)
          /\ deadline' = 0
       \/ Hangs("line") /\ UNCHANGED <<authReplies, deadline>>
       \/ \E line \in PeerLines(AuthLines) :
            /\ reads' = Append(reads, ReadOf("line", "ok", line))
            /\ authReplies' = Append(authReplies, ReadLineOK(line))
            /\ IF AfterUserReply(line) = "pass"
               THEN spc' = "sendPass" /\ opErr' = opErr
               ELSE OpReturn(AfterUserReply(line))
            /\ deadline' = 0
    /\ StreamAfterRead
    /\ UNCHANGED <<manifestVars, getVars, historyVars, postVars, codecVars, cmdVars, conn, op, sent,
                   user, reqArgs, reqCode, reqLine, reqLines, bwErr, openConns, session>>

\* Auth: up to the flush of AUTHINFO PASS
AuthSendPass ==
    /\ op = "Auth" /\ spc = "sendPass"
    /\ sent' = Append(sent, <<"AUTHINFO PASS", 0>>)
    /\ WriteOK("passReply") \/ WriteFails
    /\ UNCHANGED <<manifestVars, getVars, historyVars, postVars, codecVars, leftover, cmdVars, conn, op, user,
                   authReplies, reqArgs, reqCode, reqLine, reqLines, openConns, reads,
                   session>>

\* Auth: the reply to AUTHINFO PASS is read, and the deadline cleared
AuthReadPass ==
    /\ op = "Auth" /\ spc = "passReply"
    /\ \/ /\ \E e \in ReadFailures : ReadFails("line", e)
          /\ authReplies' = Append(authReplies, ReadLineErr)
          /\ deadline' = 0
       \/ Hangs("line") /\ UNCHANGED <<authReplies, deadline>>
       \/ \E line \in PeerLines(AuthLines) :
            /\ reads' = Append(reads, ReadOf("line", "ok", line))
            /\ authReplies' = Append(authReplies, ReadLineOK(line))
            /\ OpReturn(AfterPassReply(line))
            /\ deadline' = 0
    /\ StreamAfterRead
    /\ UNCHANGED <<manifestVars, getVars, historyVars, postVars, codecVars, cmdVars, conn, op, sent,
                   user, reqArgs, reqCode, reqLine, reqLines, bwErr, openConns, session>>

\* strings.ToUpper, on the methods a caller gives
ToUpper(m) ==
    CASE m = "body" -> "BODY"
      [] m = "head" -> "HEAD"
      [] m = "article" -> "ARTICLE"
      [] m = "stat" -> "STAT"
      [] OTHER -> m

\* Request's payload test with the method compared as it was given
ReadsPayloadExactCase(method, code) ==
    /\ code >= 200 /\ code < 300
    /\ method \in {"BODY", "HEAD", "ARTICLE"}

\* Request: whether a dot-terminated payload is read after the status line
ReadsPayload(method, code) ==
    /\ code >= 200 /\ code < 300
    /\ ToUpper(method) \in {"BODY", "HEAD", "ARTICLE"}

\* Request: up to the flush of the command
RequestSend ==
    /\ op = "Request" /\ spc = "start"
    /\ reads' = <<>>
    /\ sent' = Append(sent, reqArgs)
    /\ reqCode' = 0 /\ reqLine' = <<>> /\ reqLines' = <<>>
    /\ \/ /\ WriteOK("status")
          /\ failed' = failed
       \/ /\ WriteFails
          /\ NoteFailure(sent')
    /\ UNCHANGED <<manifestVars, getVars, postVars, codecVars, leftover, cmdVars, conn, op, user, authReplies,
                   reqArgs, mark, payloadRead, article, want, sizesOK, openConns, session>>

\* a status line with no status code
LJunk == <<120, 121>>

\* the status lines a peer answers a request with; a caller of Request is
\* also shown one without a code
RequestLines == IF pc = "caller" THEN {L222, L430, LJunk} ELSE {L222, L430}

\* Request: the status line is read and its code parsed; the deadline is
\* cleared, and armed again when a payload is to be read
RequestReadStatus ==
    /\ op = "Request" /\ spc = "status"
    /\ \/ /\ \E e \in ReadFailures : ReadFails("line", e)
          /\ NoteFailure(sent)
          /\ deadline' = 0
          /\ UNCHANGED <<reqCode, reqLine>>
       \/ Hangs("line") /\ UNCHANGED <<reqCode, reqLine, deadline, failed>>
       \/ \E line \in PeerLines(RequestLines) :
            /\ reads' = Append(reads, ReadOf("line", "ok", line))
            /\ reqCode' = StatusCode(line)
            /\ reqLine' = line
            /\ IF ReadsPayload(reqArgs[1], StatusCode(line))
               THEN /\ spc' = "payload" /\ opErr' = opErr /\ failed' = failed
                    /\ deadline' = DeadlineAfter(NNTPReadTimeout)
               ELSE /\ OpReturn("nil")
                    /\ deadline' = 0
                    /\ IF StatusCode(line) >= 200 /\ StatusCode(line) < 300
                       THEN failed' = failed
                       ELSE NoteFailure(sent)
    /\ StreamAfterRead
    /\ UNCHANGED <<manifestVars, getVars, postVars, codecVars, cmdVars, conn, op, sent, user,
                   authReplies, reqArgs, reqLines, mark, payloadRead, article, want, sizesOK,
                   bwErr, openConns, session>>

\* the articles the peer may hold under message-id i
ArticlesFor(i) ==
    IF faithful /\ i \in 1..Len(segBytes)
    THEN ArticlesOfSize(segBytes[i]) \cup {BrokenArticle}
    ELSE Articles

\* a Request that returns the error of ReadDotLines
PayloadErrorKept(e) == e

\* Request: the error it returns when ReadDotLines failed with e
PayloadError(e) == "nil"

\* Request: ReadDotLines; its error is dropped and leaves no lines
RequestReadPayload ==
    /\ op = "Request" /\ spc = "payload"
    /\ \/ /\ \E a \in ArticlesFor(reqArgs[2]) :
               /\ reqLines' = ReadDotLines(WireOf(a.lines))
               /\ article' = a
          /\ reads' = Append(reads, ReadOf("dot", "ok", <<>>))
          /\ payloadRead' = TRUE
          /\ failed' = failed
          /\ OpReturn("nil")
          /\ deadline' = 0
          /\ leftover' = leftover
       \/ /\ reqLines' = <<>>
          /\ article' = NoArticle
          /\ payloadRead' = FALSE
          /\ \/ /\ \E e \in ReadFailures :
                     /\ reads' = Append(reads, ReadOf("dot", e, <<>>))
                     /\ OpReturn(PayloadError(e))
                     /\ IF e = "timeout"
                        THEN \E a \in ArticlesFor(reqArgs[2]) :
                                leftover' \in LeftOf(WireOf(a.lines))
                        ELSE leftover' = <<>>
                /\ deadline' = 0
                /\ NoteFailure(sent)
             \/ Hangs("dot") /\ UNCHANGED <<deadline, failed, leftover>>
    /\ UNCHANGED <<manifestVars, getVars, postVars, codecVars, cmdVars, conn, op, sent, user,
                   authReplies, reqArgs, reqCode, reqLine, mark, want, sizesOK, bwErr,
                   openConns, session>>

\* bytes.ToLower of one byte
ToLowerByte(b) == IF b \in 65..90 THEN b + 32 ELSE b

\* "message-id:"
MessageIdPrefix == <<109, 101, 115, 115, 97, 103, 101, 45, 105, 100, 58>>

\* Post: the Message-ID of the article's first line that is such a header,
\* the empty string when it has none
RECURSIVE MessageIdOf(_)
MessageIdOf(ls) ==
    IF ls = <<>> THEN <<>>
    ELSE IF HasPrefix([i \in 1..Len(Head(ls)) |-> ToLowerByte(Head(ls)[i])], MessageIdPrefix)
         THEN TrimSpace(SubSeq(Head(ls), Len(MessageIdPrefix) + 1, Len(Head(ls))))
         ELSE MessageIdOf(Tail(ls))

\* Post: up to the flush of POST
PostSend ==
    /\ op = "Post" /\ spc = "start"
    /\ reads' = <<>>
    /\ sent' = Append(sent, <<"POST", 0>>)
    /\ posted' = <<>>
    /\ postRet' = <<>>
    /\ postReplies' = <<>>
    /\ WriteOK("postReply") \/ WriteFails
    /\ UNCHANGED <<manifestVars, getVars, historyVars, codecVars, leftover, cmdVars, conn, op, user,
                   authReplies, reqArgs, reqCode, reqLine, reqLines, openConns, session,
                   postArticle>>

L240 == StatusLine(2, 4, 0)
L340 == StatusLine(3, 4, 0)
L440 == StatusLine(4, 4, 0)
L441 == StatusLine(4, 4, 1)

PostLines == {L340, L440, L240, L441}

\* Post: whether the peer lets the article be sent
PostAccepted(line) == HasPrefix(line, <<51, 52, 48>>)

\* Post on the final reply, with the test of the first reply
PostStoredAs340(line) == HasPrefix(line, <<51, 52, 48>>)

\* Post: whether the peer has stored the article
PostStored(line) == HasPrefix(line, <<50, 52, 48>>)

\* Post: the reply to POST is read, and the deadline cleared
PostReadReply ==
    /\ op = "Post" /\ spc = "postReply"
    /\ \/ /\ \E e \in ReadFailures : ReadFails("line", e)
          /\ deadline' = 0
          /\ postReplies' = Append(postReplies, ReadLineErr)
       \/ Hangs("line") /\ UNCHANGED <<deadline, postReplies>>
       \/ \E line \in PeerLines(PostLines) :
            /\ reads' = Append(reads, ReadOf("line", "ok", line))
            /\ postReplies' = Append(postReplies, ReadLineOK(line))
            /\ IF ~PostAccepted(line)
               THEN OpReturn("server refused to accept post")
               ELSE spc' = "article" /\ opErr' = opErr
            /\ deadline' = 0
    /\ StreamAfterRead
    /\ UNCHANGED <<manifestVars, getVars, historyVars, codecVars, cmdVars, conn, op, sent, user,
                   authReplies, reqArgs, reqCode, reqLine, reqLines, bwErr, openConns,
                   session, postArticle, posted, postRet>>

\* Post: the article's lines are written, dot-stuffed, then the lone dot,
\* and flushed; a write that fails ends it after the lines written so far
PostSendArticle ==
    /\ op = "Post" /\ spc = "article"
    /\ \/ /\ posted' = WireOf(postArticle)
          /\ WriteOK("postFinal")
       \/ /\ \E k \in 0..Len(postArticle) : posted' = SubSeq(WireOf(postArticle), 1, k)
          /\ WriteFails
    /\ UNCHANGED <<manifestVars, getVars, historyVars, codecVars, leftover, cmdVars, conn, op, sent, user,
                   authReplies, reqArgs, reqCode, reqLine, reqLines, openConns, reads,
                   session, postArticle, postRet, postReplies>>

\* Post: the final reply is read, and the deadline cleared
PostReadFinal ==
    /\ op = "Post" /\ spc = "postFinal"
    /\ \/ /\ \E e \in ReadFailures : ReadFails("line", e)
          /\ deadline' = 0
          /\ postReplies' = Append(postReplies, ReadLineErr)
          /\ postRet' = postRet
       \/ Hangs("line") /\ UNCHANGED <<deadline, postReplies, postRet>>
       \/ \E line \in PeerLines(PostLines) :
            /\ reads' = Append(reads, ReadOf("line", "ok", line))
            /\ postReplies' = Append(postReplies, ReadLineOK(line))
            /\ IF ~PostStored(line)
               THEN OpReturn("post failed") /\ postRet' = postRet
               ELSE OpReturn("nil") /\ postRet' = MessageIdOf(postArticle)
            /\ deadline' = 0
    /\ StreamAfterRead
    /\ UNCHANGED <<manifestVars, getVars, historyVars, codecVars, cmdVars, conn, op, sent, user,
                   authReplies, reqArgs, reqCode, reqLine, reqLines, bwErr, openConns,
                   session, postArticle, posted>>

\* Quit's effect: QUIT is written and flushed, errors ignored, and the
\* transport closed
QuitEffect ==
    /\ sent' = QuitSent(sent)
    /\ bwErr' \in (IF CanWrite THEN {FALSE, TRUE} ELSE {TRUE})
    /\ conn' = "closed"
    /\ openConns' = OpenAfterClose(conn, openConns)

\* Quit
QuitStep ==
    /\ op = "Quit" /\ spc = "start"
    /\ reads' = <<>>
    /\ QuitEffect
    /\ OpReturn(CloseResult(conn))
    /\ UNCHANGED <<manifestVars, getVars, historyVars, postVars, codecVars, leftover, cmdVars, op, user,
                   authReplies, reqArgs, reqCode, reqLine, reqLines, deadline, session>>

\* Close
CloseStep ==
    /\ op = "Close" /\ spc = "start"
    /\ reads' = <<>>
    /\ conn' = "closed"
    /\ openConns' = OpenAfterClose(conn, openConns)
    /\ OpReturn(CloseResult(conn))
    /\ UNCHANGED <<manifestVars, getVars, historyVars, postVars, codecVars, leftover, cmdVars, op, sent, user,
                   authReplies, reqArgs, reqCode, reqLine, reqLines, deadline, bwErr,
                   session>>

DialStep == DialConnect \/ DialGreeting
AuthStep == AuthSendUser \/ AuthReadUser \/ AuthSendPass \/ AuthReadPass
RequestStep == RequestSend \/ RequestReadStatus \/ RequestReadPayload
PostStep == PostSend \/ PostReadReply \/ PostSendArticle \/ PostReadFinal
EndStep == QuitStep \/ CloseStep

----------------------------------------------------------------------------
(* getCmd. *)

\* getCmd returns e: the deferred Quit runs when the client exists
GetReturn(e, hasClient) ==
    /\ pc' = "done"
    /\ err' = e
    /\ op' = ""
    /\ spc' = "idle"
    /\ IF hasClient
       THEN QuitEffect
       ELSE UNCHANGED <<conn, sent, bwErr, openConns>>

\* the default of *end and the range check
Validate ==
    /\ pc = "validate"
    /\ LET e == IF end = 0 THEN sizeNum - 1 ELSE end IN
       /\ end' = e
       /\ IF start < 0 \/ e < 0 \/ start > e \/ e >= sizeNum
          THEN pc' = "done" /\ err' = "invalid range"
          ELSE pc' = "plan" /\ err' = err
    /\ UNCHANGED <<bwErr, openConns>>
    /\ UNCHANGED <<manifestVars, pieces, pi, lines, segWritten, pieceWritten, out, clientVars, historyVars>>
    /\ UNCHANGED <<deadline, reads, session, postVars, codecVars, leftover, cmdVars>>

\* the planning loop
Plan ==
    /\ pc = "plan"
    /\ pieces' = PlanPieces(segBytes, start, end)
    /\ pc' = "output"
    /\ UNCHANGED <<bwErr, openConns>>
    /\ UNCHANGED <<manifestVars, end, err, pi, lines, segWritten, pieceWritten, out, clientVars, historyVars>>
    /\ UNCHANGED <<deadline, reads, session, postVars, codecVars, leftover, cmdVars>>

\* the output writer is prepared, host and port are looked at, DialNNTP is called
Connect ==
    /\ pc = "output"
    /\ \/ GetReturn("create out", FALSE) /\ opErr' = opErr
       \/ GetReturn("missing NNTP host/port", FALSE) /\ opErr' = opErr
       \/ /\ pc' = "dial" /\ op' = "Dial" /\ spc' = "connect" /\ opErr' = ""
          /\ UNCHANGED <<err, conn, sent, bwErr, openConns>>
    /\ UNCHANGED <<manifestVars, end, pieces, pi, lines, segWritten, pieceWritten, out, historyVars,
                   user, authReplies, reqArgs, reqCode, reqLine, reqLines>>
    /\ UNCHANGED <<deadline, reads, session, postVars, codecVars, leftover, cmdVars>>

\* DialNNTP has returned; Auth is called when a username is given
Dialled ==
    /\ pc = "dial" /\ spc = "ret"
    /\ IF opErr # "nil"
       THEN GetReturn(opErr, FALSE) /\ opErr' = opErr
       ELSE /\ UNCHANGED <<err, conn, sent, bwErr, openConns>>
            /\ IF user # ""
               THEN pc' = "auth" /\ op' = "Auth" /\ spc' = "start" /\ opErr' = ""
               ELSE pc' = "loop" /\ op' = "" /\ spc' = "idle" /\ opErr' = opErr
    /\ UNCHANGED <<manifestVars, end, pieces, pi, lines, segWritten, pieceWritten, out, historyVars,
                   user, authReplies, reqArgs, reqCode, reqLine, reqLines>>
    /\ UNCHANGED <<deadline, reads, session, postVars, codecVars, leftover, cmdVars>>

\* Auth has returned
Authed ==
    /\ pc = "auth" /\ spc = "ret"
    /\ IF opErr # "nil"
       THEN GetReturn(opErr, TRUE)
       ELSE /\ pc' = "loop" /\ op' = "" /\ spc' = "idle"
            /\ UNCHANGED <<err, conn, sent, bwErr, openConns>>
    /\ UNCHANGED <<manifestVars, end, pieces, pi, lines, segWritten, pieceWritten, out, historyVars,
                   opErr, user, authReplies, reqArgs, reqCode, reqLine, reqLines>>
    /\ UNCHANGED <<deadline, reads, session, postVars, codecVars, leftover, cmdVars>>

\* the assembly loop: client.Body for the next piece, or the last Flush
NextPiece ==
    /\ pc = "loop"
    /\ IF pi > Len(pieces)
       THEN /\ \/ GetReturn("nil", TRUE)
               \/ GetReturn("flush", TRUE)
            /\ UNCHANGED <<reqArgs, opErr, mark>>
       ELSE /\ pc' = "body" /\ op' = "Request" /\ spc' = "start" /\ opErr' = ""
            /\ reqArgs' = <<"BODY", pieces[pi].id>>
            /\ mark' = Len(sent)
            /\ UNCHANGED <<err, conn, sent, bwErr, openConns>>
    /\ UNCHANGED <<manifestVars, end, pieces, pi, lines, segWritten, pieceWritten, out,
                   user, authReplies, reqCode, reqLine, reqLines,
                   payloadRead, article, want, sizesOK, failed>>
    /\ UNCHANGED <<deadline, reads, session, postVars, codecVars, leftover, cmdVars>>

\* the first byte of segment i in the file, by the declared sizes
SegStart(i) == Sum(SubSeq(segBytes, 1, i - 1))

Max(a, b) == IF a > b THEN a ELSE b
Min(a, b) == IF a < b THEN a ELSE b

\* the bytes of [start, end] that content c of segment i holds
WantedOf(i, c) ==
    SubSeq(c, Max(start, SegStart(i)) - SegStart(i) + 1,
              Min(end, SegStart(i) + Len(c) - 1) - SegStart(i) + 1)

\* getCmd's "Un-dot-stuff" of one line of a body
UnDotStuff(line) == IF HasPrefix(line, <<Dot, Dot>>) THEN Tail(line) ELSE line

\* What one iteration of the loop over lines does with line, for piece p and
\* w bytes of the segment decoded so far: whether the loop goes on, the bytes
\* written, the bytes decoded.
LineStep(line, p, w) ==
    LET isMeta == HasPrefix(line, YBegin) \/ HasPrefix(line, YPart) \/ HasPrefix(line, YEnd)
        l == UnDotStuff(line)
        d == decodeYEncLine(l)
        chunkLen == Len(d.bytes)
        startOff == IF p.start > w THEN p.start - w ELSE 0
        endOff == IF p.end < w + chunkLen - 1 THEN p.end - w ELSE chunkLen - 1
    IN IF isMeta THEN [do |-> "continue", bytes |-> <<>>, n |-> 0]
       ELSE IF ~d.ok THEN [do |-> "error", bytes |-> <<>>, n |-> 0]
       ELSE IF chunkLen = 0 THEN [do |-> "continue", bytes |-> <<>>, n |-> 0]
       ELSE [do |-> IF w + chunkLen > p.end THEN "break" ELSE "continue",
             bytes |-> IF startOff <= endOff
                       THEN SubSeq(d.bytes, startOff + 1, endOff + 1) ELSE <<>>,
             n |-> chunkLen]

\* the loop moves on to the next piece
PieceDone ==
    /\ pc' = "loop" /\ pi' = pi + 1 /\ lines' = <<>>

\* client.Body has returned: its lines are the loop's from here on
BodyReturned ==
    /\ pc = "body" /\ spc = "ret"
    /\ IF opErr # "nil"
       THEN /\ GetReturn("fetch body", TRUE)
            /\ UNCHANGED <<pi, lines, segWritten, pieceWritten, want, sizesOK>>
       ELSE /\ op' = "" /\ spc' = "idle"
            /\ segWritten' = 0
            /\ pieceWritten' = 0
            /\ want' = [want EXCEPT ![pieces[pi].id] = WantedOf(pieces[pi].id, article.data)]
            /\ sizesOK' = (sizesOK /\ article.ok
                           /\ Len(article.data) = segBytes[pieces[pi].id])
            /\ IF reqLines = <<>>
               THEN PieceDone
               ELSE pc' = "lines" /\ lines' = reqLines /\ pi' = pi
            /\ UNCHANGED <<err, conn, sent, bwErr, openConns>>
    /\ reqCode' = 0 /\ reqLine' = <<>> /\ reqLines' = <<>>
    /\ article' = NoArticle
    /\ UNCHANGED <<manifestVars, end, pieces, out, opErr, user, authReplies, reqArgs,
                   mark, payloadRead, failed>>
    /\ UNCHANGED <<deadline, reads, session, postVars, codecVars, leftover, cmdVars>>

\* one iteration of the loop over the lines of a body
ProcessLine ==
    /\ pc = "lines"
    /\ LET r == LineStep(Head(lines), pieces[pi], segWritten) IN
       \/ /\ r.do = "error"
          /\ GetReturn("unterminated escape", TRUE)
          /\ failed' = IF failed = 0 THEN Len(BodiesOf(sent)) ELSE failed
          /\ UNCHANGED <<pi, lines, segWritten, pieceWritten, out>>
       \/ /\ r.do # "error" /\ r.bytes # <<>>
          /\ GetReturn("write", TRUE)
          /\ UNCHANGED <<pi, lines, segWritten, pieceWritten, out, failed>>
       \/ /\ r.do # "error"
          /\ out' = out \o r.bytes
          /\ segWritten' = segWritten + r.n
          /\ pieceWritten' = pieceWritten + Len(r.bytes)
          /\ IF r.do = "break" \/ Tail(lines) = <<>>
             THEN PieceDone
             ELSE pc' = pc /\ pi' = pi /\ lines' = Tail(lines)
          /\ UNCHANGED <<err, conn, sent, bwErr, openConns, op, spc, failed>>
    /\ UNCHANGED <<manifestVars, end, pieces, opErr, user, authReplies, reqArgs,
                   reqCode, reqLine, reqLines, mark, payloadRead, article, want, sizesOK>>
    /\ UNCHANGED <<deadline, reads, session, postVars, codecVars, leftover, cmdVars>>

GetStep ==
    \/ Validate \/ Plan \/ Connect \/ Dialled \/ Authed
    \/ NextPiece \/ BodyReturned \/ ProcessLine

Next == GetStep \/ DialStep \/ AuthStep \/ RequestStep

\* one run of getCmd
Spec == Init /\ [][Next]_vars

----------------------------------------------------------------------------
(* Any caller of the NNTP client: it dials, then calls Auth, Request, Post, *)
(* Quit and Close in any order, with any arguments, on the client it got.  *)

Usernames == {"", "u"}
Methods == {"BODY", "body", "STAT"}

\* "Message-ID: x"
MessageIdHeader == <<77, 101, 115, 115, 97, 103, 101, 45, 73, 68, 58, Space, 120>>

\* the lines an article given to Post is made of
PostableLines == {<<Dot>>, <<Dot, 47>>, <<47>>, MessageIdHeader}

\* the articles given to Post
PostArticles == SeqsOf(PostableLines, 1, MaxPostLines)

InitCaller ==
    /\ segBytes = <<1>>
    /\ subjSize = 0
    /\ sizeNum = 1
    /\ start = 0
    /\ endArg = 0
    /\ user = ""
    /\ faithful = FALSE
    /\ pc = "caller"
    /\ InitRest
    /\ NoCodec
    /\ NoCmd

\* a client function is entered
Call(f, at) ==
    /\ pc = "caller" /\ spc = "idle"
    /\ op' = f /\ spc' = at /\ opErr' = ""
    /\ mark' = Len(sent)

\* a method of the client DialNNTP returned is called, on a session that is
\* open or was closed
CallMethod(f) ==
    /\ session /\ Len(sent) < MaxSent
    /\ Call(f, "start")

CallDial ==
    /\ conn = "none" /\ ~session
    /\ Call("Dial", "connect")
    /\ UNCHANGED <<manifestVars, getVars, netVars, postVars, codecVars, leftover, cmdVars, conn, sent, user,
                   authReplies, reqArgs, reqCode, reqLine, reqLines, payloadRead, article,
                   want, sizesOK, failed>>

CallAuth ==
    /\ CallMethod("Auth")
    /\ user' \in Usernames
    /\ authReplies' = <<>>
    /\ UNCHANGED <<manifestVars, getVars, netVars, postVars, codecVars, leftover, cmdVars, conn, sent, reqArgs,
                   reqCode, reqLine, reqLines, payloadRead, article, want, sizesOK, failed>>

CallRequest ==
    /\ CallMethod("Request")
    /\ reqArgs' \in Methods \X {1}
    /\ UNCHANGED <<manifestVars, getVars, netVars, postVars, codecVars, leftover, cmdVars, conn, sent, user,
                   authReplies, reqCode, reqLine, reqLines, payloadRead, article, want,
                   sizesOK, failed>>

CallPost ==
    /\ CallMethod("Post")
    /\ postArticle' \in PostArticles
    /\ UNCHANGED <<manifestVars, getVars, netVars, codecVars, leftover, cmdVars, conn, sent, user, authReplies,
                   reqArgs, reqCode, reqLine, reqLines, payloadRead, article, want, sizesOK,
                   failed, posted, postRet, postReplies>>

CallQuit ==
    /\ CallMethod("Quit")
    /\ UNCHANGED <<manifestVars, getVars, netVars, postVars, codecVars, leftover, cmdVars, conn, sent, user,
                   authReplies, reqArgs, reqCode, reqLine, reqLines, payloadRead, article,
                   want, sizesOK, failed>>

\* Close writes nothing: it can be called however many commands were written
CallClose ==
    /\ session
    /\ Call("Close", "start")
    /\ UNCHANGED <<manifestVars, getVars, netVars, postVars, codecVars, leftover, cmdVars, conn, sent, user,
                   authReplies, reqArgs, reqCode, reqLine, reqLines, payloadRead, article,
                   want, sizesOK, failed>>

\* the caller has taken what the function returned
CallerReturned ==
    /\ pc = "caller" /\ spc = "ret"
    /\ op' = "" /\ spc' = "idle" /\ opErr' = ""
    /\ user' = "" /\ authReplies' = <<>>
    /\ reqArgs' = <<"", 0>> /\ reqCode' = 0 /\ reqLine' = <<>> /\ reqLines' = <<>>
    /\ article' = NoArticle
    /\ reads' = <<>>
    /\ postArticle' = <<>> /\ posted' = <<>> /\ postRet' = <<>> /\ postReplies' = <<>>
    /\ UNCHANGED <<manifestVars, getVars, codecVars, leftover, cmdVars, conn, sent, mark, payloadRead, want,
                   sizesOK, failed, deadline, bwErr, openConns, session>>

CallerStep ==
    \/ CallDial \/ CallAuth \/ CallRequest \/ CallPost \/ CallQuit \/ CallClose
    \/ CallerReturned

ClientStep == DialStep \/ AuthStep \/ RequestStep \/ PostStep \/ EndStep

NextClient == CallerStep \/ ClientStep

\* one session of the client, driven by any caller
SpecClient == InitCaller /\ [][NextClient]_vars

\* the same, where a client function that can take a step does take one
FairSpecClient == SpecClient /\ WF_vars(ClientStep)

----------------------------------------------------------------------------
(* checkCmd: one request per segment of the selected files.                 *)

\* the most files selected, and the most segments of a file
MaxFiles == 2
MaxFileSegs == 2

CheckMethods == {"STAT", "BODY"}

\* checkCmd is entered
InitCheck ==
    /\ segBytes = <<1>>
    /\ subjSize = 0
    /\ sizeNum = 1
    /\ start = 0
    /\ endArg = 0
    /\ user \in Usernames
    /\ faithful = FALSE
    /\ pc = "check"
    /\ InitRest
    /\ NoCodec
    /\ checkMethod \in CheckMethods
    /\ files \in SeqsOf(0..MaxFileSegs, 0, MaxFiles)
    /\ servers = <<>> /\ check = FALSE
    /\ CmdRest

\* the message-id of segment j of file i
SegId(i, j) == Sum(SubSeq(files, 1, i - 1)) + j

\* checkCmd returns e: the deferred Quit runs when the client exists
CheckReturn(e, hasClient) == GetReturn(e, hasClient)

\* flags, configuration and manifest are read, the files are selected,
\* DialNNTP is called
CheckStart ==
    /\ pc = "check"
    /\ \/ \E e \in {"flags", "config", "usage", "fetch", "file not found"} :
            CheckReturn(e, FALSE) /\ opErr' = opErr
       \/ /\ pc' = "cdial" /\ op' = "Dial" /\ spc' = "connect" /\ opErr' = ""
          /\ UNCHANGED <<err, conn, sent, bwErr, openConns>>
    /\ UNCHANGED <<manifestVars, end, pieces, pi, lines, segWritten, pieceWritten, out, historyVars,
                   user, authReplies, reqArgs, reqCode, reqLine, reqLines>>
    /\ UNCHANGED <<deadline, reads, session, postVars, codecVars, leftover, cmdVars>>

\* DialNNTP has returned; Auth is called when a username is given
CheckDialled ==
    /\ pc = "cdial" /\ spc = "ret"
    /\ IF opErr # "nil"
       THEN CheckReturn(opErr, FALSE) /\ opErr' = opErr
       ELSE /\ UNCHANGED <<err, conn, sent, bwErr, openConns>>
            /\ IF user # ""
               THEN pc' = "cauth" /\ op' = "Auth" /\ spc' = "start" /\ opErr' = ""
               ELSE pc' = "cloop" /\ op' = "" /\ spc' = "idle" /\ opErr' = opErr
    /\ UNCHANGED <<manifestVars, end, pieces, pi, lines, segWritten, pieceWritten, out, historyVars,
                   user, authReplies, reqArgs, reqCode, reqLine, reqLines>>
    /\ UNCHANGED <<deadline, reads, session, postVars, codecVars, leftover, cmdVars>>

\* Auth has returned
CheckAuthed ==
    /\ pc = "cauth" /\ spc = "ret"
    /\ IF opErr # "nil"
       THEN CheckReturn(opErr, TRUE)
       ELSE /\ pc' = "cloop" /\ op' = "" /\ spc' = "idle"
            /\ UNCHANGED <<err, conn, sent, bwErr, openConns>>
    /\ UNCHANGED <<manifestVars, end, pieces, pi, lines, segWritten, pieceWritten, out, historyVars,
                   opErr, user, authReplies, reqArgs, reqCode, reqLine, reqLines>>
    /\ UNCHANGED <<deadline, reads, session, postVars, codecVars, leftover, cmdVars>>

\* the loops over files and segments: the next request, the next file, or
\* the return
CheckNext ==
    /\ pc = "cloop"
    /\ IF fi > Len(files)
       THEN /\ CheckReturn("nil", TRUE)
            /\ UNCHANGED <<reqArgs, opErr, mark, fi, si, printed>>
       ELSE IF si > files[fi]
       THEN /\ fi' = fi + 1 /\ si' = 1
            /\ printed' = Append(printed, <<"Checked", fi>>)
            /\ UNCHANGED <<pc, err, op, spc, opErr, reqArgs, mark, conn, sent, bwErr,
                           openConns>>
       ELSE /\ pc' = "creq" /\ op' = "Request" /\ spc' = "start" /\ opErr' = ""
            /\ reqArgs' = <<checkMethod, SegId(fi, si)>>
            /\ mark' = Len(sent)
            /\ UNCHANGED <<err, conn, sent, bwErr, openConns, fi, si, printed>>
    /\ UNCHANGED <<manifestVars, end, pieces, pi, lines, segWritten, pieceWritten, out,
                   user, authReplies, reqCode, reqLine, reqLines,
                   payloadRead, article, want, sizesOK, failed>>
    /\ UNCHANGED <<deadline, reads, session, postVars, codecVars, leftover>>
    /\ UNCHANGED <<checkMethod, files, servers, check, vi, ok, addrVars>>

\* a loop that a missing article ends as an error does
CheckEndsOnMissing(e, code) == e # "nil" \/ code = 430

\* whether the loop ends the command after a request that returned error e
\* and status code
CheckEnds(e, code) == e # "nil"

\* client.Request has returned: an error ends the command, a 430 is reported
CheckRequested ==
    /\ pc = "creq" /\ spc = "ret"
    /\ IF CheckEnds(opErr, reqCode)
       THEN /\ CheckReturn("request", TRUE)
            /\ UNCHANGED <<si, printed>>
       ELSE /\ pc' = "cloop" /\ op' = "" /\ spc' = "idle"
            /\ si' = si + 1
            /\ printed' = IF reqCode = 430
                          THEN Append(printed, <<"missing", reqArgs[2]>>)
                          ELSE printed
            /\ UNCHANGED <<err, conn, sent, bwErr, openConns>>
    /\ reqCode' = 0 /\ reqLine' = <<>> /\ reqLines' = <<>>
    /\ article' = NoArticle
    /\ UNCHANGED <<manifestVars, end, pieces, pi, lines, segWritten, pieceWritten, out, opErr, user,
                   authReplies, reqArgs, mark, payloadRead, want, sizesOK, failed>>
    /\ UNCHANGED <<deadline, reads, session, postVars, codecVars, leftover>>
    /\ UNCHANGED <<checkMethod, files, fi, servers, check, vi, ok, addrVars>>

CheckStep == CheckStart \/ CheckDialled \/ CheckAuthed \/ CheckNext \/ CheckRequested

----------------------------------------------------------------------------
(* validateCmd: each selected server is examined and, with --check, dialled *)
(* and authenticated to.                                                   *)

\* the most servers selected
MaxServers == 2

\* a server of the configuration: whether it has hostname and port, and its
\* username
ServerConfigs == [valid : BOOLEAN, username : Usernames]

\* validateCmd is entered
InitValidate ==
    /\ segBytes = <<1>>
    /\ subjSize = 0
    /\ sizeNum = 1
    /\ start = 0
    /\ endArg = 0
    /\ user = ""
    /\ faithful = FALSE
    /\ pc = "vstart"
    /\ InitRest
    /\ NoCodec
    /\ servers \in SeqsOf(ServerConfigs, 0, MaxServers)
    /\ check \in BOOLEAN
    /\ checkMethod = "" /\ files = <<>>
    /\ CmdRest

\* flags and configuration are read, the servers are selected
ValidateStart ==
    /\ pc = "vstart"
    /\ \/ \E e \in {"flags", "config", "server not found"} : pc' = "done" /\ err' = e
       \/ Len(servers) = 0 /\ pc' = "done" /\ err' = "no servers configured"
       \/ Len(servers) > 0 /\ pc' = "vloop" /\ err' = err
    /\ UNCHANGED <<manifestVars, end, pieces, pi, lines, segWritten, pieceWritten, out, clientVars,
                   historyVars, netVars, postVars, codecVars, leftover, cmdVars>>

\* a loop whose ok tells of the last server only
ValidateReportedLastOnly(r) ==
    /\ pc' = "vloop" /\ op' = "" /\ spc' = "idle"
    /\ printed' = Append(printed, <<r, vi>>)
    /\ ok' = (r \in {"ok", "ok (host)"})
    /\ vi' = vi + 1

\* the loop goes on with the next server, having reported r on this one
ValidateReported(r) ==
    /\ pc' = "vloop" /\ op' = "" /\ spc' = "idle"
    /\ printed' = Append(printed, <<r, vi>>)
    /\ ok' = (ok /\ r \in {"ok", "ok (host)"})
    /\ vi' = vi + 1

\* the body of the loop up to DialNNTP, or the return after the loop
ValidateServer ==
    /\ pc = "vloop"
    /\ IF vi > Len(servers)
       THEN /\ pc' = "done"
            /\ err' = IF ok THEN "nil" ELSE "some checks failed"
            /\ UNCHANGED <<op, spc, opErr, printed, ok, vi>>
       ELSE /\ err' = err
            /\ IF ~servers[vi].valid
               THEN ValidateReported("invalid") /\ opErr' = opErr
               ELSE IF ~check
               THEN ValidateReported("ok (host)") /\ opErr' = opErr
               ELSE /\ pc' = "vdial" /\ op' = "Dial" /\ spc' = "connect" /\ opErr' = ""
                    /\ UNCHANGED <<printed, ok, vi>>
    /\ UNCHANGED <<manifestVars, end, pieces, pi, lines, segWritten, pieceWritten, out, historyVars,
                   conn, sent, user, authReplies, reqArgs, reqCode, reqLine, reqLines>>
    /\ UNCHANGED <<netVars, postVars, codecVars, leftover>>
    /\ UNCHANGED <<checkMethod, files, fi, si, servers, check, addrVars>>

\* DialNNTP has returned: Auth is called when the server has a username,
\* the session is quit when it has none
ValidateDialled ==
    /\ pc = "vdial" /\ spc = "ret"
    /\ IF opErr # "nil"
       THEN /\ ValidateReported("connect failed")
            /\ UNCHANGED <<conn, sent, bwErr, openConns, user, authReplies, opErr, mark>>
       ELSE IF servers[vi].username # ""
       THEN /\ pc' = "vauth" /\ op' = "Auth" /\ spc' = "start" /\ opErr' = ""
            /\ user' = servers[vi].username /\ authReplies' = <<>>
            /\ mark' = Len(sent)
            /\ UNCHANGED <<conn, sent, bwErr, openConns, printed, ok, vi>>
       ELSE /\ ValidateReported("ok")
            /\ QuitEffect
            /\ UNCHANGED <<user, authReplies, opErr, mark>>
    /\ UNCHANGED <<manifestVars, end, pieces, err, pi, lines, segWritten, pieceWritten, out, payloadRead,
                   article, want, sizesOK, failed, reqArgs, reqCode, reqLine, reqLines>>
    /\ UNCHANGED <<deadline, reads, session, postVars, codecVars, leftover>>
    /\ UNCHANGED <<checkMethod, files, fi, si, servers, check, addrVars>>

\* an authentication failure that leaves the session as it is
ValidateAuthFailedNoQuit ==
    /\ ValidateReported("auth failed")
    /\ UNCHANGED <<conn, sent, bwErr, openConns>>

\* Auth failed: the failure is reported and the session is quit
ValidateAuthFailed ==
    /\ ValidateReported("auth failed")
    /\ QuitEffect

\* Auth has returned: either way the session is quit
ValidateAuthed ==
    /\ pc = "vauth" /\ spc = "ret"
    /\ IF opErr # "nil"
       THEN ValidateAuthFailed
       ELSE ValidateReported("ok") /\ QuitEffect
    /\ user' = "" /\ authReplies' = <<>>
    /\ UNCHANGED <<manifestVars, end, pieces, err, pi, lines, segWritten, pieceWritten, out, historyVars,
                   opErr, reqArgs, reqCode, reqLine, reqLines>>
    /\ UNCHANGED <<deadline, reads, session, postVars, codecVars, leftover>>
    /\ UNCHANGED <<checkMethod, files, fi, si, servers, check, addrVars>>

ValidateStep == ValidateStart \/ ValidateServer \/ ValidateDialled \/ ValidateAuthed

NextValidate == ValidateStep \/ DialStep \/ AuthStep

\* one run of validateCmd
SpecValidate == InitValidate /\ [][NextValidate]_vars

----------------------------------------------------------------------------
(* The three commands that open a session: get, check, validate.            *)

\* getCmd is entered with a manifest of one or two segments whose subject
\* announces no size
InitGet == Init /\ Len(segBytes) <= 2 /\ subjSize = 0

InitCmds == InitGet \/ InitCheck \/ InitValidate

NextCmds == Next \/ CheckStep \/ ValidateStep

\* one run of one of the commands
SpecCmds == InitCmds /\ [][NextCmds]_vars

----------------------------------------------------------------------------
(* The line codecs on their own: a byte sequence is encoded as one yEnc     *)
(* line; the line is decoded, or it is transmitted as a one-line payload,  *)
(* read by Request and taken through getCmd's loop up to the decoder.      *)

\* bytes whose encodings are plain, the end-marker, the escape marker and
\* the three other critical values
CodecBytes == {4, 5, 19, 214, 224, 227}

\* every single byte, and the short sequences over CodecBytes
CodecRaws == SeqsOf(0..255, 1, 1) \cup SeqsOf(CodecBytes, 0, MaxRawLen)

InitCodec ==
    /\ segBytes = <<1>>
    /\ subjSize = 0
    /\ sizeNum = 1
    /\ start = 0
    /\ endArg = 0
    /\ user = ""
    /\ faithful = FALSE
    /\ pc = "codec"
    /\ InitRest
    /\ cpc = "raw"
    /\ cin \in CodecRaws
    /\ cval = CodecValue(TRUE, <<>>)
    /\ NoCmd

CodecTo(stage, v) ==
    /\ cpc' = stage /\ cval' = v
    /\ UNCHANGED <<cin, manifestVars, getVars, clientVars, historyVars, netVars, postVars,
                 cmdVars, leftover>>

\* the mirror transform makes the line
Encode ==
    /\ pc = "codec" /\ cpc = "raw"
    /\ CodecTo("encoded", CodecValue(TRUE, <<encodeYEncLine(cin)>>))

\* decodeYEncLine on the line as encoded
Decode ==
    /\ pc = "codec" /\ cpc = "encoded"
    /\ LET d == decodeYEncLine(cval.lines[1])
       IN CodecTo("decoded", CodecValue(d.ok, <<d.bytes>>))

\* the line goes out as a payload of one line, as Post writes it
Transmit ==
    /\ pc = "codec" /\ cpc = "encoded"
    /\ CodecTo("wire", CodecValue(TRUE, WireOf(cval.lines)))

\* Request reads the payload
SessionRead ==
    /\ pc = "codec" /\ cpc = "wire"
    /\ CodecTo("read", CodecValue(TRUE, ReadDotLines(cval.lines)))

\* getCmd's loop takes each line read up to its call of the decoder
AssemblerStrip ==
    /\ pc = "codec" /\ cpc = "read"
    /\ CodecTo("todecoder",
               CodecValue(TRUE, [i \in 1..Len(cval.lines) |-> UnDotStuff(cval.lines[i])]))

NextCodec == Encode \/ Decode \/ Transmit \/ SessionRead \/ AssemblerStrip

SpecCodec == InitCodec /\ [][NextCodec]_vars

----------------------------------------------------------------------------
(* The connection parameters of getCmd and checkCmd: the flags, and the     *)
(* server of the configuration that --server names.                        *)

\* the most servers in the configuration
MaxCfgServers == 2

\* a server of the configuration
CfgServers == [name : {"s", "t"}, hostname : {"", "b"}, port : {0, 2}, username : {"", "v"}]

\* Config.Server(name): the index of the first server of that name, 0 when
\* there is none
RECURSIVE ServerFrom(_, _, _)
ServerFrom(c, name, i) ==
    IF i > Len(c) THEN 0
    ELSE IF c[i].name = name THEN i ELSE ServerFrom(c, name, i + 1)

Server(c, name) == ServerFrom(c, name, 1)

\* a string flag after the override: the server's value when the flag is empty
FlagOrServer(flag, configured) == IF flag = "" THEN configured ELSE flag

\* *p after the override: the server's port when the flag is 0 and the
\* server has one
PortOrServer(flag, configured) == IF flag = 0 /\ configured # 0 THEN configured ELSE flag

\* *h, *p and *u after the override by the server at index i of cfg
Overridden(i) ==
    [h |-> FlagOrServer(hostname, cfg[i].hostname),
     p |-> PortOrServer(port, cfg[i].port),
     u |-> FlagOrServer(user, cfg[i].username)]

\* getCmd or checkCmd is entered with its flags
InitResolve ==
    /\ segBytes = <<1>>
    /\ subjSize = 0
    /\ sizeNum = 1
    /\ start = 0
    /\ endArg = 0
    /\ user \in Usernames
    /\ faithful = FALSE
    /\ pc \in {"getflags", "checkflags"}
    /\ InitRest
    /\ NoCodec
    /\ checkMethod = "" /\ files = <<>> /\ servers = <<>> /\ check = FALSE
    /\ fi = 1 /\ si = 1 /\ vi = 1 /\ ok = TRUE /\ printed = <<>>
    /\ hostname \in {"", "a"}
    /\ port \in {0, 1}
    /\ server \in {"", "s", "t"}
    /\ cfg \in SeqsOf(CfgServers, 0, MaxCfgServers)
    /\ addr = <<>>
    /\ env = <<>>

\* the command returns e before it dials
ResolveFails(e) == pc' = "done" /\ err' = e /\ UNCHANGED <<user, addr>>

\* the command comes to its call of DialNNTP with *h, *p and *u as in r;
\* getCmd first refuses an empty host and a port of 0
ResolveDials(r, tested) ==
    IF tested /\ (r.h = "" \/ r.p = 0)
    THEN ResolveFails("missing NNTP host/port")
    ELSE pc' = "dial" /\ err' = err /\ user' = r.u /\ addr' = <<r.h, r.p>>

\* from the flags to the call of DialNNTP
Resolve(tested) ==
    /\ \/ \E e \in {"flags", "usage", "fetch", "file not found"} : ResolveFails(e)
       \/ /\ server = ""
          /\ ResolveDials([h |-> hostname, p |-> port, u |-> user], tested)
       \/ /\ server # ""
          /\ \/ ResolveFails("load config")
             \/ IF Server(cfg, server) = 0
                THEN ResolveFails("server not found")
                ELSE ResolveDials(Overridden(Server(cfg, server)), tested)
    /\ UNCHANGED <<manifestVars, end, pieces, pi, lines, segWritten, pieceWritten, out, historyVars,
                   netVars, postVars, codecVars, leftover>>
    /\ UNCHANGED <<conn, op, spc, opErr, sent, authReplies, reqArgs, reqCode, reqLine,
                   reqLines>>
    /\ UNCHANGED <<checkMethod, files, fi, si, servers, check, vi, ok, printed, hostname,
                   port, server, cfg, env>>

GetResolve == pc = "getflags" /\ Resolve(TRUE)

CheckResolve == pc = "checkflags" /\ Resolve(FALSE)

NextResolve == GetResolve \/ CheckResolve

SpecResolve == InitResolve /\ [][NextResolve]_vars

----------------------------------------------------------------------------
(* configFromEnvMap: the servers of a flat map of NNTP_ keys.               *)

\* the largest index n of a key NNTP_<n>_<FIELD>
MaxEnvIndex == 2

\* the index of an un-indexed key NNTP_<FIELD>
NoIndex == -1

\* the keys of a map, each as its index and its field
EnvKeys == ({NoIndex} \cup 0..MaxEnvIndex) \X {"HOSTNAME", "NAME"}

\* the maps: any keys, the hostnames "b" and the names "s"
EnvMaps == { [k \in K |-> IF k[2] = "NAME" THEN "s" ELSE "b"] : K \in SUBSET EnvKeys }

\* indexed[i], or base for NoIndex: the fields of the keys of index i
FieldsOf(m, i) == { k[2] : k \in { x \in DOMAIN m : x[1] = i } }

\* mm[field], the empty string when the key is absent
ValueOf(m, i, field) == IF <<i, field>> \in DOMAIN m THEN m[<<i, field>>] ELSE ""

\* serverFromMap and the name given after it
EnvServer(m, i, defaultName) ==
    [name |-> IF ValueOf(m, i, "NAME") = "" THEN defaultName ELSE ValueOf(m, i, "NAME"),
     hostname |-> ValueOf(m, i, "HOSTNAME"),
     port |-> 0,
     username |-> ""]

\* the loop over indexed servers from index i on: it ends at the first index
\* that no key has
RECURSIVE IndexedServers(_, _)
IndexedServers(m, i) ==
    IF FieldsOf(m, i) = {} THEN <<>>
    ELSE <<EnvServer(m, i, "server-" \o ToString(i))>> \o IndexedServers(m, i + 1)

configFromEnvMap(m) ==
    IF IndexedServers(m, 0) = <<>> /\ FieldsOf(m, NoIndex) # {}
    THEN <<EnvServer(m, NoIndex, "default")>>
    ELSE IndexedServers(m, 0)

InitEnv ==
    /\ segBytes = <<1>>
    /\ subjSize = 0
    /\ sizeNum = 1
    /\ start = 0
    /\ endArg = 0
    /\ user = ""
    /\ faithful = FALSE
    /\ pc = "env"
    /\ InitRest
    /\ NoCodec
    /\ checkMethod = "" /\ files = <<>> /\ servers = <<>> /\ check = FALSE
    /\ fi = 1 /\ si = 1 /\ vi = 1 /\ ok = TRUE /\ printed = <<>>
    /\ hostname = "" /\ port = 0 /\ server = "" /\ cfg = <<>> /\ addr = <<>>
    /\ env \in EnvMaps

\* configFromEnvMap(env)
ConfigFromEnv ==
    /\ pc = "env"
    /\ pc' = "config"
    /\ cfg' = configFromEnvMap(env)
    /\ UNCHANGED <<manifestVars, end, pieces, err, pi, lines, segWritten, pieceWritten, out, clientVars,
                   historyVars, netVars, postVars, codecVars, leftover>>
    /\ UNCHANGED <<checkMethod, files, fi, si, servers, check, vi, ok, printed, hostname,
                   port, server, addr, env>>

SpecEnv == InitEnv /\ [][ConfigFromEnv]_vars

----------------------------------------------------------------------------
(* decodeYEncLine on any transported line.                                 *)

\* the escape marker, two plain bytes and a byte that follows the marker in
\* an encoded line
LineBytes == {Equals, 47, 106, 125}

TransportedLines == SeqsOf(LineBytes, 0, MaxLineLen)

InitDecode ==
    /\ segBytes = <<1>>
    /\ subjSize = 0
    /\ sizeNum = 1
    /\ start = 0
    /\ endArg = 0
    /\ user = ""
    /\ faithful = FALSE
    /\ pc = "decode"
    /\ InitRest
    /\ cpc = "line"
    /\ cin \in TransportedLines
    /\ cval = CodecValue(TRUE, <<>>)
    /\ NoCmd

\* decodeYEncLine(line)
DecodeLine ==
    /\ pc = "decode" /\ cpc = "line"
    /\ LET d == decodeYEncLine(cin)
       IN CodecTo("returned", CodecValue(d.ok, <<d.bytes>>))

SpecDecode == InitDecode /\ [][DecodeLine]_vars

----------------------------------------------------------------------------
(* What the claims speak of. *)

\* the last byte of segment i in the file, by the declared sizes
SegEnd(i) == SegStart(i) + segBytes[i] - 1

\* the segments that hold at least one byte of [s, e]
Overlapping(s, e) ==
    { i \in 1..Len(segBytes) : segBytes[i] > 0 /\ SegStart(i) <= e /\ SegEnd(i) >= s }

\* the members of S among 1..n, in increasing order
RECURSIVE Ascending(_, _)
Ascending(S, n) ==
    IF n = 0 THEN <<>>
    ELSE Ascending(S, n - 1) \o (IF n \in S THEN <<n>> ELSE <<>>)

\* the range passed the check and the planning loop has run
Planned == pc \notin {"validate", "plan"} /\ err # "invalid range"

LastPiece == pieces[Len(pieces)]

\* C1: when get ends without error, every segment served had its declared
\* decoded size and the file size is the sum of the declared sizes, the bytes
\* written are bytes start..end of the concatenation of the segments' decoded
\* content, end-start+1 of them, however the content was cut into lines.
C1_RangeOutput ==
    (pc = "done" /\ err = "nil" /\ sizesOK /\ sizeNum = Sum(segBytes))
        => /\ out = Flatten(want)
           /\ Len(out) = end - start + 1

\* C2: a request whose end is at or past the sum of the declared sizes, whose
\* start is past its end, or with a negative bound, is rejected with the range
\* error before a connection is opened or a byte written.
C2_BadRangeRejected ==
    (/\ pc # "validate"
     /\ (endArg >= Sum(segBytes) \/ start > endArg \/ start < 0 \/ endArg < 0))
        => /\ pc = "done" /\ err = "invalid range"
           /\ conn = "none" /\ sent = <<>> /\ out = <<>>

\* C3: the size the range is checked against is the sum of the declared sizes,
\* so the last planned piece of an accepted range ends at the range's end.
C3_ValidatedAgainstSum ==
    Planned => /\ sizeNum = Sum(segBytes)
               /\ pieces # <<>>
               /\ SegStart(LastPiece.id) + LastPiece.end = end

\* C4: for an accepted range with bytes in several segments the pieces are
\* consecutive segments; the first starts at start less its segment's first
\* byte, the later ones at 0; all but the last end at the declared size less
\* one, the last at end less its segment's first byte.
C4_MultiSegmentPlan ==
    (Planned /\ Cardinality(Overlapping(start, end)) >= 2)
        => /\ Len(pieces) >= 2
           /\ \A k \in 1..(Len(pieces) - 1) : pieces[k + 1].id = pieces[k].id + 1
           /\ pieces[1].start = start - SegStart(pieces[1].id)
           /\ \A k \in 2..Len(pieces) : pieces[k].start = 0
           /\ \A k \in 1..(Len(pieces) - 1) : pieces[k].end = segBytes[pieces[k].id] - 1
           /\ LastPiece.end = end - SegStart(LastPiece.id)

\* the one segment that holds all of [s, e], as a set
Holding(s, e) == { i \in 1..Len(segBytes) : SegStart(i) <= s /\ e <= SegEnd(i) }

\* the one piece for [s, e] inside segment i is planned, and no body but
\* that segment's is asked for, once at most and once when get succeeds
OnePieceFor(i, s, e) ==
    /\ pieces = << [id |-> i, start |-> s - SegStart(i), end |-> e - SegStart(i)] >>
    /\ BodiesOf(sent) \in {<<>>, <<i>>}
    /\ (pc = "done" /\ err = "nil") => BodiesOf(sent) = <<i>>

\* C5 as claimed: every range 0 <= start <= end < file size given to get that
\* lies inside one segment, [0,0] included, is planned as one piece.
C5_AnyRangeInOneSegment ==
    (Planned /\ 0 <= start /\ start <= endArg /\ endArg < sizeNum)
        => \A i \in Holding(start, endArg) : OnePieceFor(i, start, endArg)

\* C5 as amended: every range 0 <= start <= end < file size given to get with
\* end # 0 (an --end of 0 means "to the end of the file") that lies inside one
\* segment is planned as the one piece (segment, start - segStart, end -
\* segStart), and only that segment's body is asked for.
C5_RangeInOneSegment ==
    (Planned /\ 0 <= start /\ start <= endArg /\ endArg < sizeNum /\ endArg # 0)
        => \A i \in Holding(start, endArg) : OnePieceFor(i, start, endArg)

\* C5's case: get has succeeded on a range inside a segment that is not the
\* first and that the range does not start
C5_Witness ==
    /\ pc = "done" /\ err = "nil" /\ endArg # 0
    /\ \E i \in Holding(start, endArg) : i > 1 /\ start > SegStart(i)
    /\ Len(out) = endArg - start + 1

\* C6: every planned piece has 0 <= intraStart <= intraEnd < the declared
\* size of its segment (stated for the files whose size is the sum of the
\* declared sizes, zero-size segments among them).
C6_PieceBounds ==
    sizeNum = Sum(segBytes) =>
        \A k \in 1..Len(pieces) :
            /\ 0 <= pieces[k].start
            /\ pieces[k].start <= pieces[k].end
            /\ pieces[k].end < segBytes[pieces[k].id]

\* C7: in a get that succeeds the bodies asked for are those of the segments
\* with a byte in [start, end], in manifest order, once each, and a body is
\* asked for only when the response before it was read to its end.
C7_RequestsOverlappingInOrder ==
    /\ (pc = "done" /\ err = "nil")
           => BodiesOf(sent) = Ascending(Overlapping(start, end), Len(segBytes))
    /\ (pc = "body" /\ spc = "start") => payloadRead

\* C8: once the fetch of a piece has failed (the command could not be
\* written, the status line could not be read or was not 2xx, the payload
\* could not be read, a line ended in the escape marker), no further body is
\* asked for and get does not end without error.
C8_FailureAborts ==
    failed # 0 => /\ Len(BodiesOf(sent)) = failed
                  /\ pc = "done" => err # "nil"

\* the commands the client function that runs has written
OpSent == SubSeq(sent, mark + 1, Len(sent))

PassSent == \E k \in 1..Len(OpSent) : OpSent[k][1] = "AUTHINFO PASS"

\* the status codes of the replies Auth has read (-1: the read failed)
ReplyCodes ==
    [k \in 1..Len(authReplies) |->
        IF authReplies[k].ok THEN StatusCode(authReplies[k].line) ELSE -1]

AuthReturned == op = "Auth" /\ spc = "ret"

\* C9: Auth writes AUTHINFO PASS if and only if the username is not empty
\* and the reply to AUTHINFO USER is 381; with an empty username it writes
\* nothing and succeeds; on a first reply of 281 it succeeds and the password
\* is never written.
C9_PasswordSentIff ==
    op = "Auth" =>
        /\ PassSent => (user # "" /\ ReplyCodes # <<>> /\ ReplyCodes[1] = 381)
        /\ (spc = "ret" /\ user # "" /\ ReplyCodes # <<>> /\ ReplyCodes[1] = 381)
               => PassSent
        /\ (spc = "ret" /\ user = "") => (OpSent = <<>> /\ opErr = "nil")
        /\ (spc = "ret" /\ user # "" /\ ReplyCodes # <<>> /\ ReplyCodes[1] = 281)
               => (opErr = "nil" /\ ~PassSent)

\* C9's case: Auth has returned after a 381 made it write the password
C9_Witness ==
    AuthReturned /\ user # "" /\ ReplyCodes = <<381, 281>> /\ PassSent /\ opErr = "nil"

\* C10: with a username, Auth succeeds exactly when the replies are (281) or
\* (381, 281); it returns "auth failed" on (381, other than 281), "auth
\* unexpected response" on a first reply that is neither, and the read's
\* error (the transport's, or the timeout), not success, when a read fails.
C10_AuthResult ==
    (AuthReturned /\ user # "") =>
        /\ opErr = "nil" <=> ReplyCodes \in {<<281>>, <<381, 281>>}
        /\ (Len(ReplyCodes) = 2 /\ ReplyCodes[1] = 381 /\ ReplyCodes[2] \notin {281, -1})
               => opErr = "auth failed"
        /\ (Len(ReplyCodes) >= 1 /\ ReplyCodes[1] \notin {281, 381, -1})
               => opErr = "auth unexpected response"
        /\ (\E k \in 1..Len(ReplyCodes) : ReplyCodes[k] = -1) => opErr \in {"read", "timeout"}

\* C10's case: Auth has returned after 381 and then a rejection
C10_Witness ==
    AuthReturned /\ user # "" /\ ReplyCodes = <<381, 481>> /\ opErr = "auth failed"

\* a client function that reads from the peer runs and has not returned
Running == op \in {"Auth", "Request", "Post"} /\ spc \notin {"idle", "ret"}

\* the last read the client function made
LastRead == reads[Len(reads)]

\* C11: a call of Request, Auth or Post does not wait forever: it returns,
\* and when the peer said nothing in answer to a command, so that the read
\* of the status line ended at the deadline, it returns the timeout error.
C11_SilentPeerTimesOut ==
    /\ Running ~> ~Running
    /\ [](( /\ op \in {"Auth", "Request", "Post"} /\ spc = "ret"
            /\ reads # <<>> /\ LastRead.kind = "line" /\ LastRead.how = "timeout")
          => opErr = "timeout")

\* C11's case: Request has returned the timeout error of its status read
C11_Witness ==
    /\ op = "Request" /\ spc = "ret" /\ opErr = "timeout"
    /\ reads = <<ReadOf("line", "timeout", <<>>)>>

\* a read of the transport is in progress
ReadPending ==
    spc \in {"greeting", "userReply", "passReply", "status", "payload", "postReply",
             "postFinal"}

\* C12: every read of the transport is made with a deadline armed, the
\* greeting read of DialNNTP included, no deadline stays armed after the
\* read, and no read waits forever.
C12_ReadsUnderDeadline ==
    /\ ReadPending => deadline > 0
    /\ ~ReadPending => deadline = 0
    /\ spc # "hung"

\* the kinds of the reads the client function has made, in order
ReadKinds == [k \in 1..Len(reads) |-> reads[k].kind]

\* the methods that name BODY, HEAD or ARTICLE in any case of letters,
\* among those a caller gives
PayloadMethods == {"BODY", "body", "HEAD", "head", "ARTICLE", "article"}

\* C13: Request reads a dot-terminated payload exactly when the status code
\* it parsed is in 200..299 and the method is BODY, HEAD or ARTICLE in any
\* case of letters; otherwise it reads the one status line and nothing more
\* and returns no payload.
C13_PayloadReadIff ==
    (op = "Request" /\ spc = "ret") =>
        LET statusRead == reads # <<>> /\ reads[1].how = "ok"
            bearing == /\ statusRead
                       /\ reqCode >= 200 /\ reqCode <= 299
                       /\ reqArgs[1] \in PayloadMethods
        IN /\ ReadKinds = IF bearing THEN <<"line", "dot">>
                          ELSE IF opErr = "write" THEN <<>> ELSE <<"line">>
           /\ ~bearing => reqLines = <<>>
           /\ statusRead => reqCode = StatusCode(reads[1].line)

\* C13's case: a request of "body" in small letters answered 222 has read
\* the payload
C13_Witness ==
    /\ op = "Request" /\ spc = "ret" /\ reqArgs[1] = "body" /\ reqCode = 222
    /\ ReadKinds = <<"line", "dot">> /\ reqLines # <<>>

\* the status codes of the replies Post has read (-1: the read failed)
PostReplyCodes ==
    [k \in 1..Len(postReplies) |->
        IF postReplies[k].ok THEN StatusCode(postReplies[k].line) ELSE -1]

\* C14: Post writes POST and reads one status; only after a 340 does it
\* write the article's lines and then one lone end-marker line, and read a
\* second status; it succeeds only on (340, 240); after a first status other
\* than 340 it fails with "server refused to accept post" having written no
\* line and no end-marker; after a final status other than 240 it fails with
\* "post failed"; a failed Post returns no message-id.
C14_PostOrder ==
    op = "Post" =>
        /\ posted # <<>> => (PostReplyCodes # <<>> /\ PostReplyCodes[1] = 340)
        /\ postReplies # <<>> => OpSent = << <<"POST", 0>> >>
        /\ Len(postReplies) = 2 =>
              /\ Len(posted) = Len(postArticle) + 1
              /\ posted[Len(posted)] = <<Dot>>
              /\ \A k \in 1..Len(postArticle) :
                    /\ posted[k] # <<Dot>>
                    /\ posted[k] = (IF postArticle[k] # <<>> /\ postArticle[k][1] = Dot
                                    THEN <<Dot>> ELSE <<>>) \o postArticle[k]
        /\ spc = "ret" =>
              /\ opErr = "nil" <=> PostReplyCodes = <<340, 240>>
              /\ (PostReplyCodes # <<>> /\ PostReplyCodes[1] \notin {340, -1})
                    => /\ opErr = "server refused to accept post"
                       /\ posted = <<>> /\ Len(postReplies) = 1
              /\ (Len(PostReplyCodes) = 2 /\ PostReplyCodes[2] \notin {240, -1})
                    => opErr = "post failed"
              /\ opErr # "nil" => postRet = <<>>

\* C14's case: Post has succeeded with an article that has a line beginning
\* with the end-marker
C14_Witness ==
    /\ op = "Post" /\ spc = "ret" /\ opErr = "nil"
    /\ \E k \in 1..Len(postArticle) : postArticle[k][1] = Dot
    /\ postRet # <<>>

\* C16: a Quit or Close leaves the session closed with the transport
\* released once, and reports no failure, the second and later ones too.
C16_CloseIdempotent ==
    (op \in {"Quit", "Close"} /\ spc = "ret") =>
        /\ conn = "closed"
        /\ openConns = 0
        /\ opErr = "nil"

\* Request, Post or Auth runs on a session that was closed
OnClosed == conn = "closed" /\ op \in {"Auth", "Request", "Post"}

\* on a closed session the function makes no read and, once it has
\* returned, has returned an error and neither status nor payload
FailsFast ==
    /\ reads = <<>>
    /\ ~ReadPending /\ spc # "hung"
    /\ spc = "ret" =>
          /\ opErr \notin {"", "nil"}
          /\ reqCode = 0 /\ reqLine = <<>> /\ reqLines = <<>>
          /\ postRet = <<>>

\* after Quit the session stays closed
StaysClosed == (\E k \in 1..Len(sent) : sent[k][1] = "QUIT") => conn = "closed"

\* C17 as claimed: every Request, Post or Auth on a closed session fails fast.
C17_AnyCallOnClosedFails == (OnClosed => FailsFast) /\ StaysClosed

\* C17 as amended: every Request, every Post and every Auth with a username
\* on a closed session fails fast with an error, reads nothing and returns
\* neither status nor payload; the session stays closed.
C17_ClosedFailsFast ==
    /\ (OnClosed /\ ~(op = "Auth" /\ user = "")) => FailsFast
    /\ StaysClosed

\* C17's case: Request has returned on a session closed by Quit
C17_Witness ==
    /\ OnClosed /\ op = "Request" /\ spc = "ret" /\ opErr = "write"
    /\ \E k \in 1..Len(sent) - 1 : sent[k][1] = "QUIT"

\* C19: DialNNTP reads one greeting line at most; it returns a client
\* exactly when that line was read and its status code is 200 or 201;
\* otherwise it returns an error, the transport it opened is closed, and in
\* no case has a command been written.
C19_GreetingGate ==
    (op = "Dial" /\ spc = "ret") =>
        LET ready == /\ reads # <<>> /\ reads[1].how = "ok"
                     /\ StatusCode(reads[1].line) \in {200, 201}
        IN /\ Len(reads) <= 1
           /\ session <=> ready
           /\ session <=> opErr = "nil"
           /\ ~session => (conn # "open" /\ openConns = 0)
           /\ session => conn = "open"
           /\ sent = <<>>

\* C19's case: DialNNTP has returned an error on a greeting that is not 200
\* or 201
C19_Witness ==
    /\ op = "Dial" /\ spc = "ret" /\ opErr = "unexpected greeting"
    /\ reads = <<ReadOf("line", "ok", L502)>>

\* C15: a line transmitted with one more leading end-marker when it begins
\* with one reaches the line decoder, after Request's reading and getCmd's own
\* stripping, exactly as it was encoded.
C15_UndoneExactlyOnce ==
    cpc = "todecoder" => cval.lines = <<encodeYEncLine(cin)>>

\* C20: decodeYEncLine applied to the mirror encoding of a byte sequence
\* returns that sequence, with no error.
C20_DecodeInvertsEncode ==
    cpc = "decoded" => cval = CodecValue(TRUE, <<cin>>)

\* a sequence with an escaped byte and a plain one has been decoded
C20_Witness ==
    /\ cpc = "decoded" /\ cin = <<19, 4>>
    /\ encodeYEncLine(cin) = <<Equals, 125, Dot>>
    /\ cval = CodecValue(TRUE, <<cin>>)

\* the command that runs has returned
Returned == pc = "done"

\* C18: when get, check or validate has returned, no transport it opened is
\* open; validate holds none between two servers, and no command ever holds
\* more than one.
C18_ConnectionsReleased ==
    /\ Returned => openConns = 0
    /\ pc = "vloop" => openConns = 0
    /\ openConns \in {0, 1}
    /\ openConns = 1 => conn = "open"

\* validate returned after its second server rejected the authentication on
\* a session that had been opened
C18_Witness ==
    /\ Returned /\ Len(servers) = 2 /\ check
    /\ printed = << <<"ok", 1>>, <<"auth failed", 2>> >>
    /\ conn = "closed" /\ openConns = 0

\* a scan from the left, one byte at a time and two at an escape marker,
\* meets an escape marker at the last position of the line
RECURSIVE EscapeAtEnd(_)
EscapeAtEnd(line) ==
    /\ line # <<>>
    /\ IF Head(line) = Equals
       THEN Len(line) = 1 \/ EscapeAtEnd(Tail(Tail(line)))
       ELSE EscapeAtEnd(Tail(line))

\* C21: decodeYEncLine fails, with no bytes, exactly on the lines whose scan
\* meets an escape marker at the last position; every other line, the empty
\* one included, decodes without error, the empty one to no bytes.
C21_MalformedEscapeIff ==
    (pc = "decode" /\ cpc = "returned") =>
        /\ ~cval.ok <=> EscapeAtEnd(cin)
        /\ ~cval.ok => cval.lines = << <<>> >>
        /\ cin = <<>> => cval = CodecValue(TRUE, << <<>> >>)

\* the line "=j=" was given: an escaped byte, then a marker at the end
C21_Witness ==
    /\ pc = "decode" /\ cpc = "returned"
    /\ cin = <<Equals, 106, Equals>>
    /\ ~cval.ok /\ cval.lines = << <<>> >>

\* Request has returned after a payload read that failed
PayloadReadFailed ==
    /\ op = "Request" /\ spc = "ret"
    /\ Len(reads) = 2
    /\ reads[2].kind = "dot" /\ reads[2].how \in {"read", "timeout"}

\* C22: when the status code is 2xx for a payload method and the read of the
\* payload fails, Request returns no error, the status code, the status line
\* and no payload.
C22_PayloadErrorSwallowed ==
    PayloadReadFailed =>
        /\ opErr = "nil"
        /\ reqCode \in 200..299 /\ ToUpper(reqArgs[1]) \in {"BODY", "HEAD", "ARTICLE"}
        /\ reqLine = reads[1].line /\ reqCode = StatusCode(reqLine)
        /\ reqLines = <<>>

\* a lower-case body request whose payload read ran into the deadline
C22_Witness ==
    /\ PayloadReadFailed /\ pc = "caller"
    /\ reqArgs[1] = "body" /\ reads[2].how = "timeout"
    /\ opErr = "nil" /\ reqCode = 222 /\ reqLines = <<>>

\* --server names a server of the configuration that has a hostname and a
\* port
NamesServer ==
    /\ server # "" /\ Server(cfg, server) # 0
    /\ cfg[Server(cfg, server)].hostname # "" /\ cfg[Server(cfg, server)].port # 0

\* C23: when --server names a configured server, get and check dial that
\* server's hostname and port, whatever --hostname and --port give.
C23_ServerOverrides ==
    (pc = "dial" /\ NamesServer) =>
        addr = <<cfg[Server(cfg, server)].hostname, cfg[Server(cfg, server)].port>>

\* the indices n that occur in keys NNTP_<n>_<FIELD>
Indices == { k[1] : k \in { x \in DOMAIN env : x[1] # NoIndex } }

\* how many indices that occur are at most i
RankOf(i) == Cardinality({ j \in Indices : j <= i })

\* C24: configFromEnvMap builds one server per index that occurs, in
\* increasing order of the indices, whatever the lowest one is; the keys
\* without an index give one server exactly when no index occurs.
C24_OneServerPerIndex ==
    pc = "config" =>
        IF Indices # {}
        THEN /\ Len(cfg) = Cardinality(Indices)
             /\ \A i \in Indices :
                    cfg[RankOf(i)].hostname = ValueOf(env, i, "HOSTNAME")
        ELSE Len(cfg) = IF FieldsOf(env, NoIndex) # {} THEN 1 ELSE 0

\* a is a prefix of b
IsPrefix(a, b) == Len(a) <= Len(b) /\ SubSeq(b, 1, Len(a)) = a

\* the sink is only appended to, and not at all by the return of get
SinkKept == IsPrefix(out, out') /\ (pc' = "done" => out' = out)

\* C25: at every point of get, when the segments served so far had their
\* declared decoded sizes, the bytes written are a prefix of the bytes of
\* start..end that those segments hold, in segment order; the sink is only
\* ever appended to and the return of get, with or without error, leaves it
\* as it is.
C25_StreamedInOrder ==
    /\ []((pc # "codec" /\ sizesOK) => IsPrefix(out, Flatten(want)))
    /\ [][SinkKept]_vars

\* the message-ids check has sent requests for, in the order sent
RECURSIVE RequestedIn(_)
RequestedIn(log) ==
    IF log = <<>> THEN <<>>
    ELSE (IF Head(log)[1] = checkMethod THEN <<Head(log)[2]>> ELSE <<>>)
         \o RequestedIn(Tail(log))

\* checkCmd runs or has returned
InCheck == checkMethod # ""

\* the request that has returned met an error of the transport or a timeout:
\* its command could not be written, or its status line could not be read
RequestMetError ==
    \/ reads = <<>>
    \/ reads[Len(reads)].kind = "line" /\ reads[Len(reads)].how \in {"read", "timeout"}

\* what the loop does with a request that has returned
CheckLoopStep ==
    (InCheck /\ pc = "creq" /\ spc = "ret") =>
        IF opErr = "nil"
        THEN /\ pc' = "cloop" /\ si' = si + 1 /\ fi' = fi /\ sent' = sent
             /\ printed' = IF reqCode = 430
                           THEN Append(printed, <<"missing", reqArgs[2]>>)
                           ELSE printed
        ELSE /\ RequestMetError
             /\ pc' = "done" /\ err' = "request"
             /\ RequestedIn(sent') = RequestedIn(sent)

\* C26: check requests the segments of the selected files one by one in file
\* order and segment order, each once, and all of them when it returns
\* without error; a 430 is reported and the loop goes on; once requests are
\* being sent check fails only after a request that met an error of the
\* transport or a timeout, and it requests nothing after it.
C26_OneRequestPerSegment ==
    /\ [](InCheck =>
            /\ \E n \in 0..Sum(files) : RequestedIn(sent) = [k \in 1..n |-> k]
            /\ (pc = "done" /\ err = "nil") => Len(RequestedIn(sent)) = Sum(files)
            /\ (pc = "done" /\ err # "nil" /\ RequestedIn(sent) # <<>>)
                   => err = "request" /\ RequestMetError)
    /\ [][CheckLoopStep]_vars

\* check has returned without error after three requests, the second of
\* which was answered 430
C26_Witness ==
    /\ InCheck /\ pc = "done" /\ err = "nil"
    /\ files = <<2, 1>>
    /\ RequestedIn(sent) = <<1, 2, 3>>
    /\ printed = << <<"missing", 2>>, <<"Checked", 1>>, <<"Checked", 2>> >>

\* validate has returned from after its loop, or for want of servers
ValidateReturned ==
    pc = "done" /\ err \in {"nil", "some checks failed", "no servers configured"}

\* the reports that tell of a server that failed
FailureReports == {"invalid", "connect failed", "auth failed"}

SomeServerFailed == \E k \in 1..Len(printed) : printed[k][1] \in FailureReports

\* every selected server has its report, in order, and the report on a
\* server without hostname or port is "invalid" and on no other
EveryServerExamined ==
    /\ Len(printed) = Len(servers)
    /\ \A k \in 1..Len(printed) :
          /\ printed[k][2] = k
          /\ printed[k][1] = "invalid" <=> ~servers[k].valid
          /\ ~check => printed[k][1] \in {"invalid", "ok (host)"}

\* the report on a server follows what DialNNTP and Auth returned
ReportsFollow ==
    /\ (pc = "vdial" /\ spc = "ret" /\ opErr # "nil")
          => printed' = Append(printed, <<"connect failed", vi>>)
    /\ (pc = "vauth" /\ spc = "ret")
          => printed' = Append(printed, <<IF opErr # "nil" THEN "auth failed" ELSE "ok", vi>>)
    /\ (pc = "vdial" /\ spc = "ret" /\ opErr = "nil")
          => \/ pc' = "vauth" /\ printed' = printed
             \/ printed' = Append(printed, <<"ok", vi>>)

\* without --check no transport is opened and nothing is written
NoConnectionWithoutCheck ==
    ~check => conn = "none" /\ openConns = 0 /\ sent = <<>> /\ op = ""

\* C27 as stated: validate returns an error exactly when a server failed.
C27_ErrorIffServerFailed ==
    /\ [](/\ ValidateReturned => (err # "nil" <=> SomeServerFailed)
          /\ (ValidateReturned /\ servers # <<>>) => EveryServerExamined
          /\ NoConnectionWithoutCheck)
    /\ [][ReportsFollow]_vars

\* C27: validate reports on every selected server, whatever the earlier ones
\* came to, and returns an error exactly when no server is selected or a
\* server has no hostname or port or, with --check, could not be dialled or
\* authenticated to; without --check no connection is opened.
C27_ErrorIffFailedOrNone ==
    /\ [](/\ ValidateReturned => (err # "nil" <=> (servers = <<>> \/ SomeServerFailed))
          /\ (ValidateReturned /\ servers # <<>>) => EveryServerExamined
          /\ NoConnectionWithoutCheck)
    /\ [][ReportsFollow]_vars

\* with --check, the first server had no port and the second was dialled
\* and found in order: validate returned its error
C27_Witness ==
    /\ ValidateReturned /\ check /\ Len(servers) = 2
    /\ printed = << <<"invalid", 1>>, <<"ok", 2>> >>
    /\ err = "some checks failed"

\* a ReadLine for a status line returns a line in this step
StatusLineRead ==
    /\ op \in {"Request", "Auth", "Post"}
    /\ Len(reads') = Len(reads) + 1
    /\ reads'[Len(reads')].kind = "line" /\ reads'[Len(reads')].how = "ok"

\* C28: whenever Request has returned without error no line of the peer's
\* answer is left unread, and every status line that Request, Auth or Post
\* reads is the peer's answer to the command just written, not a line left
\* of an earlier response.
C28_PairingKept ==
    /\ []((op = "Request" /\ spc = "ret" /\ opErr = "nil") => leftover = <<>>)
    /\ [][StatusLineRead => leftover = <<>>]_vars

----------------------------------------------------------------------------
(* The assembly loop over bodies of any decoded size.                       *)

\* getCmd is entered with a manifest of one or two segments; the articles
\* the peer holds have any decoded size and any lines
InitAnySize ==
    /\ segBytes \in Manifests /\ Len(segBytes) <= 2
    /\ subjSize \in {0, MaxSubjSize}
    /\ sizeNum = FileSizeNum(subjSize, segBytes)
    /\ start \in 0..(2 * MaxSegBytes - 1)
    /\ endArg \in 0..(2 * MaxSegBytes - 1)
    /\ user \in {"", "u"}
    /\ faithful = FALSE
    /\ pc = "validate"
    /\ InitRest
    /\ NoCodec
    /\ NoCmd

\* one run of getCmd against such a peer
SpecAnySize == InitAnySize /\ [][Next]_vars

\* the decoded bytes of the line the loop is at
Decoded == decodeYEncLine(UnDotStuff(Head(lines))).bytes

\* the bytes this step writes are decoded bytes of the line the loop is at
\* whose positions in the segment lie in [intraStart, intraEnd]
WritesWithinPiece ==
    (pc = "lines" /\ out' # out) =>
        LET n == Len(out') - Len(out)
            p == pieces[pi]
        IN \E a \in 1..Len(Decoded) :
               /\ a + n - 1 <= Len(Decoded)
               /\ out' = out \o SubSeq(Decoded, a, a + n - 1)
               /\ p.start <= segWritten + a - 1
               /\ segWritten + a + n - 2 <= p.end

\* the bytes written for a piece stay within its length
PieceWritesBounded ==
    pc = "lines" => pieceWritten' <= pieces[pi].end - pieces[pi].start + 1

\* get writes no more than the range holds
TotalBounded ==
    (pc # "validate" /\ err # "invalid range") => Len(out) <= end - start + 1

\* no line of a piece is looked at when the decoded count exceeds intraEnd
StopsPastEnd == pc = "lines" => segWritten <= pieces[pi].end

\* C29: whatever the decoded content of the bodies, the assembly loop writes
\* for each piece at most intraEnd - intraStart + 1 bytes, none at a decoded
\* position outside [intraStart, intraEnd], looks at no further line of the
\* piece once the decoded count exceeds intraEnd, and get writes at most
\* end - start + 1 bytes in all.
C29_AssemblyBounded ==
    /\ [](TotalBounded /\ StopsPastEnd)
    /\ [][WritesWithinPiece /\ PieceWritesBounded]_vars

====
